---- MODULE Spec2Model ----
(***************************************************************************)
(* InnerPeace AI: the dual-mode record store (remote Firestore collections *)
(* with an in-memory fallback), the mood trend analysis and the Gemini     *)
(* client with its local fallbacks, as implemented in                      *)
(* src/services/firestoreService.ts.                                       *)
(***************************************************************************)
EXTENDS Integers, Sequences, FiniteSets, Bags, TLC

(***************************************************************************)
(* Bounds of the model.                                                    *)
(***************************************************************************)
\* records held by all collections together (local, remote and in flight)
MaxRecords == 3
\* readings of the client clock Date.now()
MaxNow == 2
\* distinct caller-supplied timestamps (milliseconds)
MaxTime == 2
\* largest limitCount a read is called with
MaxLimit == 3
\* remote writes that timed out and are still in flight
MaxPending == 1
\* chat sessions one user keeps while the remote store is unreachable
MaxChatSessions == 21
\* chat sessions of any other user in that time
MaxOtherSessions == 1

\* longest window of mood entries whose trend is analysed
MaxWindow == 7
\* most entries in a window whose emotion tags are ranked
MaxTagged == 4
\* the longest chat transcript on the chat screen
MaxTranscript == 4
\* journal entries written on the journal screen
MaxDrafts == 1
\* journal entries saved by calls that wait for the remote store
MaxAwaited == 1

Users == {"u1", "u2"}

\* the outcome of one remote call wrapped in withTimeout
Outcomes == {"ok", "error", "timeout"}

\* the per-call timeout of every remote call, in milliseconds
TimeoutMs == 8000

\* the limit of the remote chat-session query
ChatQueryLimit == 20

\* how many tags commonEmotions keeps
TopEmotions == 5

VARIABLES
  demoMode,              \* isDemoMode(): no Firebase API key configured
  now,                   \* Date.now()
  nextDocId,             \* next document id the remote store hands out
  localMoodEntries,      \* let localMoodEntries: MoodEntry[]
  localJournalEntries,   \* let localJournalEntries: JournalEntry[]
  localChatSessions,     \* let localChatSessions: ChatSession[]
  remoteMoodEntries,     \* collection(db, 'moodEntries')
  remoteJournalEntries,  \* collection(db, 'journalEntries')
  remoteChatSessions,    \* collection(db, 'chatSessions')
  pending,               \* remote writes whose withTimeout already rejected
  ret,                   \* what the last call returned to its caller
  GEMINI_API_KEY,        \* const GEMINI_API_KEY = import.meta.env... || ''
  reply,                 \* what the last call of the Gemini client returned
  user,                  \* UserProvider: const [user, setUser]
  hasCompletedProfile,   \* UserProvider: const [hasCompletedProfile, ...]
  localUserProfiles,     \* let localUserProfiles: Record<string, UserProfile>
  remoteUserProfiles,    \* doc(db, 'userProfiles', userId)
  isLoading,             \* UserProvider: const [isLoading, setIsLoading]
  location,              \* the router's location.pathname
  chatbotMessages,       \* Chatbot: const [messages, setMessages]
  selectedExercise,      \* Chatbot: const [selectedExercise, ...]
  calls,                 \* the service calls of the last run of a screen handler
  awaiting,              \* the adapter call that waits in withTimeout
  chatIsLoading,         \* Chatbot: const [isLoading, setIsLoading]
  isMounted,             \* UserProvider effect: let isMounted = true
  authCallbacks,         \* auth callbacks that wait for their profile fetch
  authUser            \* auth.authUser: the auth state last delivered

storeVars == <<localMoodEntries, localJournalEntries, localChatSessions,
               remoteMoodEntries, remoteJournalEntries, remoteChatSessions>>
vars == <<demoMode, now, nextDocId, localMoodEntries, localJournalEntries,
          localChatSessions, remoteMoodEntries, remoteJournalEntries,
          remoteChatSessions, pending, ret, GEMINI_API_KEY, reply,
          user, hasCompletedProfile, localUserProfiles, remoteUserProfiles,
          isLoading, location, chatbotMessages, selectedExercise, calls,
          awaiting, chatIsLoading, isMounted, authCallbacks, authUser>>
oracleVars == <<GEMINI_API_KEY, reply>>
profileVars == <<localUserProfiles, remoteUserProfiles>>
sessionVars == <<user, hasCompletedProfile, profileVars>>
flightVars == <<chatIsLoading, isMounted, authCallbacks, authUser>>
screenVars == <<isLoading, location, chatbotMessages, selectedExercise, calls,
                flightVars>>

(***************************************************************************)
(* Plain helpers.                                                          *)
(***************************************************************************)
Min(a, b) == IF a <= b THEN a ELSE b

Range(s) == {s[i] : i \in DOMAIN s}

\* Array.prototype.slice(0, n) for n >= 0
Slice0(s, n) == SubSeq(s, 1, Min(n, Len(s)))

\* Array.prototype.slice(from) with a 0-based start
SliceFrom(s, from) == SubSeq(s, from + 1, Len(s))

BagOfSeq(s) == [x \in Range(s) |-> Cardinality({i \in DOMAIN s : s[i] = x})]

CountOf(coll, userId) == Len(SelectSeq(coll, LAMBDA e : e.userId = userId))

NoId == <<>>

\* `${kind}-${Date.now()}`
LocalId(kind) == <<kind, now>>

\* the id the remote store assigns to a new document
DocId(n) == <<"doc", n>>

\* Timestamp.fromDate(date): seconds and nanoseconds of a millisecond date
TimestampFromDate(ms) ==
  [seconds |-> ms \div 1000, nanoseconds |-> (ms % 1000) * 1000000]

\* Timestamp.toDate(): back to a millisecond date
TimestampToDate(ts) == ts.seconds * 1000 + ts.nanoseconds \div 1000000

(***************************************************************************)
(* Records.  A record is a function from field names; a field whose value  *)
(* is undefined is present and holds Undefined.                            *)
(***************************************************************************)
Undefined == "undefined"

\* the fields that may hold undefined: note?, prompt?
OptionalFields == {"note", "prompt"}

\* { ...entry, id }
WithId(entry, id) ==
  [f \in DOMAIN entry \cup {"id"} |-> IF f = "id" THEN id ELSE entry[f]]

\* { ...record, ...updates }
Merge(record, updates) ==
  [f \in DOMAIN record \cup DOMAIN updates |->
     IF f \in DOMAIN updates THEN updates[f] ELSE record[f]]

\* the fields that hold a value taken from a parsed JSON document, which is
\* a record with a type and is undefined when the document lacks the field
ParsedFields == {"sentimentScore", "sentimentLabel"}

\* removeUndefined: the fields whose value is undefined are left out
RemoveUndefined(obj) ==
  LET kept == {f \in DOMAIN obj :
                 /\ ~(f \in OptionalFields /\ obj[f] = Undefined)
                 /\ ~(f \in ParsedFields /\ obj[f].type = "undefined")}
  IN [f \in kept |-> obj[f]]

(***************************************************************************)
(* Array.prototype.sort with the comparator (a, b) => key(b) - key(a): a   *)
(* stable sort into descending key order.                                  *)
(***************************************************************************)
RECURSIVE StableOrderDesc(_, _)
\* the indices 1..n of keys in the order the sort leaves them: index n goes
\* behind every index whose key is not smaller than its own
StableOrderDesc(keys, n) ==
  IF n = 0 THEN <<>>
  ELSE LET prev == StableOrderDesc(keys, n - 1)
           k == Cardinality({j \in DOMAIN prev : keys[prev[j]] >= keys[n]})
       IN SubSeq(prev, 1, k) \o <<n>> \o SubSeq(prev, k + 1, Len(prev))

SortDescBy(s, keys) ==
  LET ord == StableOrderDesc(keys, Len(s))
  IN [i \in 1..Len(s) |-> s[ord[i]]]

(***************************************************************************)
(* The local fallback queries.                                             *)
(***************************************************************************)
\* mutant of LocalQuery: the sort is left out
LocalQueryUnsorted(coll, userId, limitCount) ==
  Slice0(SelectSeq(coll, LAMBDA e : e.userId = userId), limitCount)

\* mutant of LocalQuery: slice(1, limitCount) drops the newest record
LocalQueryOffByOne(coll, userId, limitCount) ==
  LET filtered == SelectSeq(coll, LAMBDA e : e.userId = userId)
      sorted == SortDescBy(filtered,
                           [i \in DOMAIN filtered |-> filtered[i].timestamp])
  IN SubSeq(sorted, 2, Min(limitCount, Len(sorted)))

\* .filter(e => e.userId === userId)
\*   .sort((a, b) => new Date(b.timestamp).getTime() - new Date(a.timestamp).getTime())
\*   .slice(0, limitCount)
LocalQuery(coll, userId, limitCount) ==
  LET filtered == SelectSeq(coll, LAMBDA e : e.userId = userId)
      sorted == SortDescBy(filtered,
                           [i \in DOMAIN filtered |-> filtered[i].timestamp])
  IN Slice0(sorted, limitCount)

\* .filter(s => s.userId === userId)
\*   .sort((a, b) => new Date(b.lastMessageAt).getTime() - new Date(a.lastMessageAt).getTime())
LocalChatQuery(coll, userId) ==
  LET filtered == SelectSeq(coll, LAMBDA e : e.userId = userId)
  IN SortDescBy(filtered,
                [i \in DOMAIN filtered |-> filtered[i].lastMessageAt])

(***************************************************************************)
(* The remote store: documents filtered by userId equality, ordered by a   *)
(* Timestamp field, cut to a result-count limit.  Documents with equal     *)
(* timestamps come back in document-id order, and ids are handed out in    *)
(* insertion order.                                                        *)
(***************************************************************************)
TimestampKey(ts) == ts.seconds * 1000000000 + ts.nanoseconds

\* limit(n) rejects a limit that is not positive; the exception is raised
\* inside the try block of the read
QueryThrows(limitCount) == limitCount <= 0

\* query(collection, where('userId','==',userId), orderBy('timestamp','desc'),
\*       limit(limitCount)) and the mapping of the snapshot's documents
RemoteQuery(coll, userId, limitCount) ==
  LET matching == SelectSeq(coll, LAMBDA d : d.userId = userId)
      ordered == SortDescBy(matching,
                   [i \in DOMAIN matching |-> TimestampKey(matching[i].timestamp)])
      docs == Slice0(ordered, limitCount)
  IN [i \in 1..Len(docs) |->
        [docs[i] EXCEPT !.timestamp = TimestampToDate(docs[i].timestamp)]]

\* messages.map(m => ({ ...m, timestamp: Timestamp.fromDate(m.timestamp) }))
MessagesToRemote(messages) ==
  [i \in 1..Len(messages) |->
     RemoveUndefined([messages[i] EXCEPT
                        !.timestamp = TimestampFromDate(messages[i].timestamp)])]

\* doc.data().messages.map(m => ({ ...m, timestamp: m.timestamp.toDate() }))
MessagesFromRemote(messages) ==
  [i \in 1..Len(messages) |->
     [messages[i] EXCEPT !.timestamp = TimestampToDate(messages[i].timestamp)]]

\* query(collection(db,'chatSessions'), where(...), orderBy('lastMessageAt','desc'),
\*       limit(20)) and the mapping of the snapshot's documents
RemoteChatQuery(coll, userId) ==
  LET matching == SelectSeq(coll, LAMBDA d : d.userId = userId)
      ordered == SortDescBy(matching,
                   [i \in DOMAIN matching |-> TimestampKey(matching[i].lastMessageAt)])
      docs == Slice0(ordered, ChatQueryLimit)
  IN [i \in 1..Len(docs) |->
        [docs[i] EXCEPT !.lastMessageAt = TimestampToDate(docs[i].lastMessageAt),
                        !.startedAt = TimestampToDate(docs[i].startedAt),
                        !.messages = MessagesFromRemote(docs[i].messages)]]

(***************************************************************************)
(* getMoodPatterns: the trend analysis of a window of mood entries.        *)
(* Means are kept as exact quotients.  A difference of means equals 3/10   *)
(* only when the product of the two half lengths is a multiple of 10, so   *)
(* for windows of fewer than 9 entries the comparison with 0.3 has the     *)
(* same result exactly and in IEEE double arithmetic.                      *)
(***************************************************************************)
Quot(n, d) == [num |-> n, den |-> d]

\* the threshold 0.3 of the trend classification, in tenths
TrendThresholdTenths == 3

\* a - b > 0.3
ExceedsThreshold(a, b) ==
  10 * (a.num * b.den - b.num * a.den) > TrendThresholdTenths * a.den * b.den

RECURSIVE SumMood(_)
\* entries.reduce((sum, e) => sum + e.mood, 0)
SumMood(entries) ==
  IF entries = <<>> THEN 0 ELSE entries[1].mood + SumMood(Tail(entries))

\* mutant of MoodTrend: the two halves of the window change places
MoodTrendOlderFirst(entries) ==
  LET averageMood == Quot(SumMood(entries), Len(entries))
      midpoint == Len(entries) \div 2
      recentEntries == SliceFrom(entries, midpoint)
      olderEntries == Slice0(entries, midpoint)
      recentAvg == IF Len(recentEntries) > 0
                   THEN Quot(SumMood(recentEntries), Len(recentEntries))
                   ELSE averageMood
      olderAvg == IF Len(olderEntries) > 0
                  THEN Quot(SumMood(olderEntries), Len(olderEntries))
                  ELSE averageMood
  IN IF ExceedsThreshold(recentAvg, olderAvg) THEN "improving"
     ELSE IF ExceedsThreshold(olderAvg, recentAvg) THEN "declining"
     ELSE "stable"

MoodTrend(entries) ==
  LET averageMood == Quot(SumMood(entries), Len(entries))
      midpoint == Len(entries) \div 2
      recentEntries == Slice0(entries, midpoint)
      olderEntries == SliceFrom(entries, midpoint)
      recentAvg == IF Len(recentEntries) > 0
                   THEN Quot(SumMood(recentEntries), Len(recentEntries))
                   ELSE averageMood
      olderAvg == IF Len(olderEntries) > 0
                  THEN Quot(SumMood(olderEntries), Len(olderEntries))
                  ELSE averageMood
  IN IF ExceedsThreshold(recentAvg, olderAvg) THEN "improving"
     ELSE IF ExceedsThreshold(olderAvg, recentAvg) THEN "declining"
     ELSE "stable"

\* emotionCounts[emotion] = (emotionCounts[emotion] || 0) + 1, the object's
\* keys kept in insertion order (emotion names are never integer-like keys)
CountEmotion(counts, emotion) ==
  IF \E i \in DOMAIN counts : counts[i].emotion = emotion
  THEN [i \in DOMAIN counts |->
          IF counts[i].emotion = emotion
          THEN [counts[i] EXCEPT !.count = @ + 1]
          ELSE counts[i]]
  ELSE Append(counts, [emotion |-> emotion, count |-> 1])

RECURSIVE CountEmotionList(_, _)
\* e.emotions.forEach(emotion => ...)
CountEmotionList(counts, emotions) ==
  IF emotions = <<>> THEN counts
  ELSE CountEmotionList(CountEmotion(counts, emotions[1]), Tail(emotions))

RECURSIVE EmotionCounts(_, _)
\* entries.forEach(e => e.emotions.forEach(...))
EmotionCounts(counts, entries) ==
  IF entries = <<>> THEN counts
  ELSE EmotionCounts(CountEmotionList(counts, entries[1].emotions), Tail(entries))

\* mutant of CommonEmotions: the counts are not sorted
CommonEmotionsByInsertion(entries) ==
  LET counts == EmotionCounts(<<>>, entries)
      top == Slice0(counts, TopEmotions)
  IN [i \in 1..Len(top) |-> top[i].emotion]

\* Object.entries(emotionCounts).sort((a, b) => b[1] - a[1]).slice(0, 5)
\*   .map(([emotion]) => emotion)
CommonEmotions(entries) ==
  LET counts == EmotionCounts(<<>>, entries)
      sorted == SortDescBy(counts, [i \in DOMAIN counts |-> counts[i].count])
      top == Slice0(sorted, TopEmotions)
  IN [i \in 1..Len(top) |-> top[i].emotion]

NoPatterns ==
  [averageMood |-> Quot(0, 1), moodTrend |-> "none",
   commonEmotions |-> <<>>, entriesCount |-> 0]

\* mutant of MoodPatterns: the empty-window case is not singled out
MoodPatternsNoEmptyCase(entries) ==
  [averageMood |-> Quot(SumMood(entries), Len(entries)),
   moodTrend |-> MoodTrend(entries),
   commonEmotions |-> CommonEmotions(entries),
   entriesCount |-> Len(entries)]

\* the value getMoodPatterns builds from the entries it read
MoodPatterns(entries) ==
  IF Len(entries) = 0
  THEN [averageMood |-> Quot(0, 1), moodTrend |-> "stable",
        commonEmotions |-> <<>>, entriesCount |-> 0]
  ELSE [averageMood |-> Quot(SumMood(entries), Len(entries)),
        moodTrend |-> MoodTrend(entries),
        commonEmotions |-> CommonEmotions(entries),
        entriesCount |-> Len(entries)]

(***************************************************************************)
(* What a call hands back to its caller.                                   *)
(***************************************************************************)
\* path: "local" (demo mode), "remote" (the remote call succeeded) or
\* "fallback" (the remote call threw or timed out)
Returned(op, path, id, rows, userId, limitCount, patterns) ==
  [op |-> op, raised |-> FALSE, path |-> path, id |-> id, rows |-> rows,
   userId |-> userId, limitCount |-> limitCount, patterns |-> patterns]

NoReturn == Returned("none", "none", NoId, <<>>, "none", 0, NoPatterns)

\* a remote write that is still in flight after its timeout fired
PendingCall(call, coll, id, data) ==
  [call |-> call, coll |-> coll, id |-> id, data |-> data]

RecordCount ==
  Len(localMoodEntries) + Len(localJournalEntries) + Len(localChatSessions)
  + Len(remoteMoodEntries) + Len(remoteJournalEntries) + Len(remoteChatSessions)
  + Cardinality({i \in DOMAIN pending : pending[i].call = "addDoc"})

\* the records one save may add: one, or two when the remote write times
\* out (the fallback record now, the remote document when the write lands)
CanSave(outcome) ==
  /\ RecordCount + (IF ~demoMode /\ outcome = "timeout" THEN 2 ELSE 1) <= MaxRecords
  /\ (~demoMode /\ outcome # "error") =>
       nextDocId + Cardinality({i \in DOMAIN pending : pending[i].call = "addDoc"})
         <= MaxRecords
  /\ (~demoMode /\ outcome = "timeout") => Len(pending) < MaxPending

CanTimeOut(outcome) ==
  (~demoMode /\ outcome = "timeout") => Len(pending) < MaxPending

(***************************************************************************)
(* Mood entries.                                                           *)
(***************************************************************************)
saveMoodEntry(entry, outcome) ==
  IF demoMode
  THEN /\ localMoodEntries' =
            Append(localMoodEntries, WithId(entry, LocalId("mood")))
       /\ ret' = Returned("saveMoodEntry", "local", LocalId("mood"), <<>>,
                          entry.userId, 0, NoPatterns)
       /\ UNCHANGED <<remoteMoodEntries, nextDocId, pending>>
  ELSE LET payload == RemoveUndefined(
                        [entry EXCEPT !.timestamp = TimestampFromDate(entry.timestamp)])
       IN IF outcome = "ok"
          THEN /\ remoteMoodEntries' =
                    Append(remoteMoodEntries, WithId(payload, DocId(nextDocId)))
               /\ nextDocId' = nextDocId + 1
               /\ ret' = Returned("saveMoodEntry", "remote", DocId(nextDocId), <<>>,
                                  entry.userId, 0, NoPatterns)
               /\ UNCHANGED <<localMoodEntries, pending>>
          ELSE /\ localMoodEntries' =
                    Append(localMoodEntries, WithId(entry, LocalId("mood")))
               /\ ret' = Returned("saveMoodEntry", "fallback", LocalId("mood"), <<>>,
                                  entry.userId, 0, NoPatterns)
               /\ pending' = IF outcome = "timeout"
                             THEN Append(pending,
                                    PendingCall("addDoc", "moodEntries", NoId, payload))
                             ELSE pending
               /\ UNCHANGED <<remoteMoodEntries, nextDocId>>

\* the entries getMoodEntries returns, and the path that served them
\* mutant of MoodEntriesRead: a remote read also returns what the local
\* collection holds for the user
MoodEntriesReadMerged(userId, limitCount, outcome) ==
  IF demoMode
  THEN [path |-> "local", rows |-> LocalQuery(localMoodEntries, userId, limitCount)]
  ELSE IF outcome = "ok" /\ ~QueryThrows(limitCount)
  THEN [path |-> "remote",
        rows |-> RemoteQuery(remoteMoodEntries, userId, limitCount)
                 \o LocalQuery(localMoodEntries, userId, limitCount)]
  ELSE [path |-> "fallback", rows |-> LocalQuery(localMoodEntries, userId, limitCount)]

MoodEntriesRead(userId, limitCount, outcome) ==
  IF demoMode
  THEN [path |-> "local", rows |-> LocalQuery(localMoodEntries, userId, limitCount)]
  ELSE IF outcome = "ok" /\ ~QueryThrows(limitCount)
  THEN [path |-> "remote", rows |-> RemoteQuery(remoteMoodEntries, userId, limitCount)]
  ELSE [path |-> "fallback", rows |-> LocalQuery(localMoodEntries, userId, limitCount)]

getMoodEntries(userId, limitCount, outcome) ==
  LET read == MoodEntriesRead(userId, limitCount, outcome)
  IN ret' = Returned("getMoodEntries", read.path, NoId, read.rows,
                     userId, limitCount, NoPatterns)

getMoodPatterns(userId, days, outcome) ==
  LET read == MoodEntriesRead(userId, days, outcome)
  IN ret' = Returned("getMoodPatterns", read.path, NoId, read.rows,
                     userId, days, MoodPatterns(read.rows))

(***************************************************************************)
(* Journal entries.                                                        *)
(***************************************************************************)
\* mutant of saveJournalEntry: the catch block returns the fallback id
\* without pushing the record
saveJournalEntryNoPush(entry, outcome) ==
  IF demoMode
  THEN /\ localJournalEntries' =
            Append(localJournalEntries, WithId(entry, LocalId("journal")))
       /\ ret' = Returned("saveJournalEntry", "local", LocalId("journal"), <<>>,
                          entry.userId, 0, NoPatterns)
       /\ UNCHANGED <<remoteJournalEntries, nextDocId, pending>>
  ELSE LET payload == RemoveUndefined(
                        [entry EXCEPT !.timestamp = TimestampFromDate(entry.timestamp)])
       IN IF outcome = "ok"
          THEN /\ remoteJournalEntries' =
                    Append(remoteJournalEntries, WithId(payload, DocId(nextDocId)))
               /\ nextDocId' = nextDocId + 1
               /\ ret' = Returned("saveJournalEntry", "remote", DocId(nextDocId), <<>>,
                                  entry.userId, 0, NoPatterns)
               /\ UNCHANGED <<localJournalEntries, pending>>
          ELSE /\ ret' = Returned("saveJournalEntry", "fallback", LocalId("journal"),
                                  <<>>, entry.userId, 0, NoPatterns)
               /\ pending' = IF outcome = "timeout"
                             THEN Append(pending,
                                    PendingCall("addDoc", "journalEntries", NoId, payload))
                             ELSE pending
               /\ UNCHANGED <<localJournalEntries, remoteJournalEntries, nextDocId>>

saveJournalEntry(entry, outcome) ==
  IF demoMode
  THEN /\ localJournalEntries' =
            Append(localJournalEntries, WithId(entry, LocalId("journal")))
       /\ ret' = Returned("saveJournalEntry", "local", LocalId("journal"), <<>>,
                          entry.userId, 0, NoPatterns)
       /\ UNCHANGED <<remoteJournalEntries, nextDocId, pending>>
  ELSE LET payload == RemoveUndefined(
                        [entry EXCEPT !.timestamp = TimestampFromDate(entry.timestamp)])
       IN IF outcome = "ok"
          THEN /\ remoteJournalEntries' =
                    Append(remoteJournalEntries, WithId(payload, DocId(nextDocId)))
               /\ nextDocId' = nextDocId + 1
               /\ ret' = Returned("saveJournalEntry", "remote", DocId(nextDocId), <<>>,
                                  entry.userId, 0, NoPatterns)
               /\ UNCHANGED <<localJournalEntries, pending>>
          ELSE /\ localJournalEntries' =
                    Append(localJournalEntries, WithId(entry, LocalId("journal")))
               /\ ret' = Returned("saveJournalEntry", "fallback", LocalId("journal"),
                                  <<>>, entry.userId, 0, NoPatterns)
               /\ pending' = IF outcome = "timeout"
                             THEN Append(pending,
                                    PendingCall("addDoc", "journalEntries", NoId, payload))
                             ELSE pending
               /\ UNCHANGED <<remoteJournalEntries, nextDocId>>

getJournalEntries(userId, limitCount, outcome) ==
  IF demoMode
  THEN ret' = Returned("getJournalEntries", "local", NoId,
                       LocalQuery(localJournalEntries, userId, limitCount),
                       userId, limitCount, NoPatterns)
  ELSE IF outcome = "ok" /\ ~QueryThrows(limitCount)
  THEN ret' = Returned("getJournalEntries", "remote", NoId,
                       RemoteQuery(remoteJournalEntries, userId, limitCount),
                       userId, limitCount, NoPatterns)
  ELSE ret' = Returned("getJournalEntries", "fallback", NoId,
                       LocalQuery(localJournalEntries, userId, limitCount),
                       userId, limitCount, NoPatterns)

\* const index = coll.findIndex(e => e.id === id);
\* if (index !== -1) coll[index] = { ...coll[index], ...updates };
\* mutant of UpdateFirstById: every record with the id is merged
UpdateEveryById(coll, id, updates) ==
  [i \in DOMAIN coll |->
     IF coll[i].id = id THEN Merge(coll[i], updates) ELSE coll[i]]

UpdateFirstById(coll, id, updates) ==
  LET hits == {i \in DOMAIN coll : coll[i].id = id}
  IN IF hits = {} THEN coll
     ELSE LET index == CHOOSE i \in hits : \A j \in hits : i <= j
          IN [coll EXCEPT ![index] = Merge(coll[index], updates)]

\* mutant of DeleteById: filter(e => e.id === id) keeps what it should drop
DeleteByIdInverted(coll, id) == SelectSeq(coll, LAMBDA e : e.id = id)

\* coll.filter(e => e.id !== id)
DeleteById(coll, id) == SelectSeq(coll, LAMBDA e : e.id # id)

\* updateDoc(doc(db, coll, id), payload) resolves only for a document that exists
DocExists(coll, id) == \E i \in DOMAIN coll : coll[i].id = id

updateJournalEntry(id, updates, outcome) ==
  IF demoMode
  THEN /\ localJournalEntries' = UpdateFirstById(localJournalEntries, id, updates)
       /\ ret' = Returned("updateJournalEntry", "local", id, <<>>, "none", 0, NoPatterns)
       /\ UNCHANGED <<remoteJournalEntries, pending>>
  ELSE LET payload == RemoveUndefined(updates)
       IN IF outcome = "ok" /\ DocExists(remoteJournalEntries, id)
          THEN /\ remoteJournalEntries' =
                    UpdateFirstById(remoteJournalEntries, id, payload)
               /\ ret' = Returned("updateJournalEntry", "remote", id, <<>>,
                                  "none", 0, NoPatterns)
               /\ UNCHANGED <<localJournalEntries, pending>>
          ELSE /\ localJournalEntries' =
                    UpdateFirstById(localJournalEntries, id, updates)
               /\ ret' = Returned("updateJournalEntry", "fallback", id, <<>>,
                                  "none", 0, NoPatterns)
               /\ pending' = IF outcome = "timeout"
                             THEN Append(pending,
                                    PendingCall("updateDoc", "journalEntries", id, payload))
                             ELSE pending
               /\ UNCHANGED remoteJournalEntries

deleteJournalEntry(id, outcome) ==
  IF demoMode
  THEN /\ localJournalEntries' = DeleteById(localJournalEntries, id)
       /\ ret' = Returned("deleteJournalEntry", "local", id, <<>>, "none", 0, NoPatterns)
       /\ UNCHANGED <<remoteJournalEntries, pending>>
  ELSE IF outcome = "ok"
  THEN /\ remoteJournalEntries' = DeleteById(remoteJournalEntries, id)
       /\ ret' = Returned("deleteJournalEntry", "remote", id, <<>>, "none", 0, NoPatterns)
       /\ UNCHANGED <<localJournalEntries, pending>>
  ELSE /\ localJournalEntries' = DeleteById(localJournalEntries, id)
       /\ ret' = Returned("deleteJournalEntry", "fallback", id, <<>>, "none", 0, NoPatterns)
       /\ pending' = IF outcome = "timeout"
                     THEN Append(pending,
                            PendingCall("deleteDoc", "journalEntries", id, <<>>))
                     ELSE pending
       /\ UNCHANGED remoteJournalEntries

(***************************************************************************)
(* Chat sessions.                                                          *)
(***************************************************************************)
saveChatSession(session, outcome) ==
  IF demoMode
  THEN /\ localChatSessions' =
            Append(localChatSessions, WithId(session, LocalId("chat")))
       /\ ret' = Returned("saveChatSession", "local", LocalId("chat"), <<>>,
                          session.userId, 0, NoPatterns)
       /\ UNCHANGED <<remoteChatSessions, nextDocId, pending>>
  ELSE LET payload == RemoveUndefined(
                        [session EXCEPT
                           !.startedAt = TimestampFromDate(session.startedAt),
                           !.lastMessageAt = TimestampFromDate(session.lastMessageAt),
                           !.messages = MessagesToRemote(session.messages)])
       IN IF outcome = "ok"
          THEN /\ remoteChatSessions' =
                    Append(remoteChatSessions, WithId(payload, DocId(nextDocId)))
               /\ nextDocId' = nextDocId + 1
               /\ ret' = Returned("saveChatSession", "remote", DocId(nextDocId), <<>>,
                                  session.userId, 0, NoPatterns)
               /\ UNCHANGED <<localChatSessions, pending>>
          ELSE /\ localChatSessions' =
                    Append(localChatSessions, WithId(session, LocalId("chat")))
               /\ ret' = Returned("saveChatSession", "fallback", LocalId("chat"), <<>>,
                                  session.userId, 0, NoPatterns)
               /\ pending' = IF outcome = "timeout"
                             THEN Append(pending,
                                    PendingCall("addDoc", "chatSessions", NoId, payload))
                             ELSE pending
               /\ UNCHANGED <<remoteChatSessions, nextDocId>>

\* localChatSessions[index].messages = messages;
\* localChatSessions[index].lastMessageAt = new Date();
updateChatSession(id, messages, outcome) ==
  IF demoMode
  THEN /\ localChatSessions' =
            UpdateFirstById(localChatSessions, id,
                            [messages |-> messages, lastMessageAt |-> now])
       /\ ret' = Returned("updateChatSession", "local", id, <<>>, "none", 0, NoPatterns)
       /\ UNCHANGED <<remoteChatSessions, pending>>
  ELSE LET payload == [messages |-> MessagesToRemote(messages),
                       lastMessageAt |-> TimestampFromDate(now)]
       IN IF outcome = "ok" /\ DocExists(remoteChatSessions, id)
          THEN /\ remoteChatSessions' = UpdateFirstById(remoteChatSessions, id, payload)
               /\ ret' = Returned("updateChatSession", "remote", id, <<>>,
                                  "none", 0, NoPatterns)
               /\ UNCHANGED <<localChatSessions, pending>>
          ELSE /\ localChatSessions' =
                    UpdateFirstById(localChatSessions, id,
                                    [messages |-> messages, lastMessageAt |-> now])
               /\ ret' = Returned("updateChatSession", "fallback", id, <<>>,
                                  "none", 0, NoPatterns)
               /\ pending' = IF outcome = "timeout"
                             THEN Append(pending,
                                    PendingCall("updateDoc", "chatSessions", id, payload))
                             ELSE pending
               /\ UNCHANGED remoteChatSessions

getChatSessions(userId, outcome) ==
  IF demoMode
  THEN ret' = Returned("getChatSessions", "local", NoId,
                       LocalChatQuery(localChatSessions, userId),
                       userId, ChatQueryLimit, NoPatterns)
  ELSE IF outcome = "ok"
  THEN ret' = Returned("getChatSessions", "remote", NoId,
                       RemoteChatQuery(remoteChatSessions, userId),
                       userId, ChatQueryLimit, NoPatterns)
  ELSE ret' = Returned("getChatSessions", "fallback", NoId,
                       LocalChatQuery(localChatSessions, userId),
                       userId, ChatQueryLimit, NoPatterns)

(***************************************************************************)
(* A remote write whose timeout has fired is not cancelled: it may still   *)
(* land in the remote store, or be rejected.  withTimeout's promise is     *)
(* already settled, so neither outcome reaches the caller.                 *)
(***************************************************************************)
ApplyRemote(coll, name, call) ==
  IF call.coll # name THEN coll
  ELSE IF call.call = "addDoc" THEN Append(coll, WithId(call.data, DocId(nextDocId)))
  ELSE IF call.call = "updateDoc" THEN UpdateFirstById(coll, call.id, call.data)
  ELSE DeleteById(coll, call.id)

\* mutant of LateResolve: the document id of the late write replaces the id
\* the caller was given
LateResolveAdoptingId ==
  /\ pending # <<>>
  /\ remoteMoodEntries' = ApplyRemote(remoteMoodEntries, "moodEntries", Head(pending))
  /\ remoteJournalEntries' =
       ApplyRemote(remoteJournalEntries, "journalEntries", Head(pending))
  /\ remoteChatSessions' = ApplyRemote(remoteChatSessions, "chatSessions", Head(pending))
  /\ nextDocId' = IF Head(pending).call = "addDoc" THEN nextDocId + 1 ELSE nextDocId
  /\ remoteUserProfiles' =
       IF Head(pending).call = "setDoc"
       THEN [remoteUserProfiles EXCEPT ![Head(pending).id] = <<Head(pending).data>>]
       ELSE remoteUserProfiles
  /\ pending' = Tail(pending)
  /\ ret' = IF Head(pending).call = "addDoc"
            THEN [ret EXCEPT !.id = DocId(nextDocId)]
            ELSE ret
  /\ UNCHANGED <<user, hasCompletedProfile, localUserProfiles, screenVars, awaiting,
                 oracleVars, demoMode, now, localMoodEntries, localJournalEntries,
                 localChatSessions>>

LateResolve ==
  /\ pending # <<>>
  /\ remoteMoodEntries' = ApplyRemote(remoteMoodEntries, "moodEntries", Head(pending))
  /\ remoteJournalEntries' =
       ApplyRemote(remoteJournalEntries, "journalEntries", Head(pending))
  /\ remoteChatSessions' = ApplyRemote(remoteChatSessions, "chatSessions", Head(pending))
  /\ nextDocId' = IF Head(pending).call = "addDoc" THEN nextDocId + 1 ELSE nextDocId
  /\ remoteUserProfiles' =
       IF Head(pending).call = "setDoc"
       THEN [remoteUserProfiles EXCEPT ![Head(pending).id] = <<Head(pending).data>>]
       ELSE remoteUserProfiles
  /\ pending' = Tail(pending)
  /\ UNCHANGED <<user, hasCompletedProfile, localUserProfiles, screenVars, awaiting,
                 oracleVars, demoMode, now, localMoodEntries, localJournalEntries, localChatSessions, ret>>

LateReject ==
  /\ pending # <<>>
  /\ pending' = Tail(pending)
  /\ UNCHANGED <<sessionVars, screenVars, awaiting, oracleVars, demoMode, now, nextDocId, storeVars, ret>>

\* the client clock moves on
Tick ==
  /\ now < MaxNow
  /\ now' = now + 1
  /\ UNCHANGED <<sessionVars, screenVars, awaiting, oracleVars, demoMode, nextDocId, storeVars, pending, ret>>

(***************************************************************************)
(* The Gemini client.  A text is a sequence of pieces: a message typed by  *)
(* the user is a sequence of characters, a canned template or an oracle    *)
(* reply is a sequence of longer pieces.  The empty sequence is the empty  *)
(* string.                                                                 *)
(***************************************************************************)
UpperCaseLetters ==
  <<"A", "B", "C", "D", "E", "F", "G", "H", "I", "J", "K", "L", "M",
    "N", "O", "P", "Q", "R", "S", "T", "U", "V", "W", "X", "Y", "Z">>

LowerCaseLetters ==
  <<"a", "b", "c", "d", "e", "f", "g", "h", "i", "j", "k", "l", "m",
    "n", "o", "p", "q", "r", "s", "t", "u", "v", "w", "x", "y", "z">>

\* String.prototype.toLowerCase
toLowerCase(text) ==
  [i \in DOMAIN text |->
     IF \E k \in DOMAIN UpperCaseLetters : UpperCaseLetters[k] = text[i]
     THEN LowerCaseLetters[CHOOSE k \in DOMAIN UpperCaseLetters :
                             UpperCaseLetters[k] = text[i]]
     ELSE text[i]]

\* String.prototype.includes
includes(text, word) ==
  \E k \in 0..(Len(text) - Len(word)) : SubSeq(text, k + 1, k + Len(word)) = word

WhiteSpace == {" ", "\n"}

RECURSIVE TrimStart(_)
TrimStart(text) ==
  IF text # <<>> /\ Head(text) \in WhiteSpace THEN TrimStart(Tail(text)) ELSE text

RECURSIVE TrimEnd(_)
TrimEnd(text) ==
  IF text # <<>> /\ text[Len(text)] \in WhiteSpace
  THEN TrimEnd(SubSeq(text, 1, Len(text) - 1))
  ELSE text

\* String.prototype.trim
trim(text) == TrimEnd(TrimStart(text))

\* what fetch and response.json() can give: the request fails, the status
\* is not a success, the body is not JSON, the body holds no candidate
\* text, or the body holds a text
ResponseKinds == {"fetchError", "httpError", "badBody", "noText", "text"}

OracleResponse(kind, text) == [kind |-> kind, text |-> text]

\* null, and the empty string: both callers test !result, and text || null
\* never hands the empty string on
Null == <<>>

\* callGeminiAPI, as far as its result goes
callGeminiAPI(response) ==
  IF GEMINI_API_KEY = ""
  THEN Null
  ELSE IF response.kind \in {"fetchError", "httpError", "badBody"}
  THEN Null
  ELSE IF response.kind = "noText" THEN Null
  ELSE trim(response.text)

\* callGeminiSimple, as far as its result goes
callGeminiSimple(response) ==
  IF GEMINI_API_KEY = ""
  THEN Null
  ELSE IF response.kind \in {"fetchError", "httpError", "badBody"}
  THEN Null
  ELSE IF response.kind = "noText" THEN Null
  ELSE trim(response.text)

\* the keyword groups of getMockResponse
AnxietyWords ==
  {<<"a", "n", "x", "i", "o", "u", "s">>,
   <<"a", "n", "x", "i", "e", "t", "y">>,
   <<"w", "o", "r", "r", "i", "e", "d">>}
SadnessWords ==
  {<<"s", "a", "d">>,
   <<"d", "e", "p", "r", "e", "s", "s", "e", "d">>,
   <<"d", "o", "w", "n">>}
StressWords ==
  {<<"s", "t", "r", "e", "s", "s">>,
   <<"o", "v", "e", "r", "w", "h", "e", "l", "m", "e", "d">>}
AngerWords ==
  {<<"a", "n", "g", "r", "y">>,
   <<"m", "a", "d">>,
   <<"f", "r", "u", "s", "t", "r", "a", "t", "e", "d">>}
SleepWords ==
  {<<"s", "l", "e", "e", "p">>,
   <<"i", "n", "s", "o", "m", "n", "i", "a">>,
   <<"t", "i", "r", "e", "d">>}
GreetingWords ==
  {<<"h", "e", "l", "l", "o">>,
   <<"h", "i">>,
   <<"h", "e", "y">>}

\* the canned templates, each stood for by its opening sentence
AnxietyTemplate ==
  <<"I hear that you're feeling anxious, and I want you to know that's completely valid.">>
SadnessTemplate ==
  <<"Thank you for sharing how you're feeling. It takes courage to acknowledge when we're feeling down.">>
StressTemplate ==
  <<"I can sense that you're feeling overwhelmed, and I want you to know that it's okay to feel this way.">>
AngerTemplate ==
  <<"I can hear that you're feeling frustrated or angry right now.">>
SleepTemplate ==
  <<"Sleep difficulties can be really challenging, and I appreciate you sharing this with me.">>
GreetingTemplate ==
  <<"Hello! It's good to connect with you.">>

\* message.substring(0, 50)
QuoteLength == 50

GenericTemplate(message) ==
  <<"Thank you for sharing with me. I'm here to listen and support you.",
    "I noticed you mentioned ">>
  \o Slice0(message, QuoteLength)
  \o (IF Len(message) > QuoteLength THEN <<"...">> ELSE <<>>)
  \o <<"Can you tell me more about what's on your mind?">>

\* mutant of getMockResponse: the message is not lowercased
getMockResponseCaseSensitive(message) ==
  LET has(words) == \E w \in words : includes(message, w)
  IN IF has(AnxietyWords) THEN AnxietyTemplate
     ELSE IF has(SadnessWords) THEN SadnessTemplate
     ELSE IF has(StressWords) THEN StressTemplate
     ELSE IF has(AngerWords) THEN AngerTemplate
     ELSE IF has(SleepWords) THEN SleepTemplate
     ELSE IF has(GreetingWords) THEN GreetingTemplate
     ELSE GenericTemplate(message)

getMockResponse(message) ==
  LET lowerMessage == toLowerCase(message)
      has(words) == \E w \in words : includes(lowerMessage, w)
  IN IF has(AnxietyWords) THEN AnxietyTemplate
     ELSE IF has(SadnessWords) THEN SadnessTemplate
     ELSE IF has(StressWords) THEN StressTemplate
     ELSE IF has(AngerWords) THEN AngerTemplate
     ELSE IF has(SleepWords) THEN SleepTemplate
     ELSE IF has(GreetingWords) THEN GreetingTemplate
     ELSE GenericTemplate(message)

Replied(op, input, response, result) ==
  [op |-> op, raised |-> FALSE, input |-> input, response |-> response,
   result |-> result]

NoReply == Replied("none", <<>>, OracleResponse("fetchError", <<>>), <<>>)

\* neither branch of the try block nor the catch block can throw
sendChatMessage(message, response) ==
  LET result == callGeminiAPI(response)
  IN reply' = Replied("sendChatMessage", message, response,
                      IF result = Null THEN getMockResponse(message) ELSE result)

(***************************************************************************)
(* Values JSON.parse can produce.  A number is an exact quotient.          *)
(***************************************************************************)
JsNumber(num, den) == [type |-> "number", num |-> num, den |-> den]
JsString(str) == [type |-> "string", str |-> str]
JsArray(items) == [type |-> "array", items |-> items]
JsNull == [type |-> "null"]
JsUndefined == [type |-> "undefined"]
JsObject(fields) == [type |-> "object", fields |-> fields]

PositiveWords ==
  {<<"h", "a", "p", "p", "y">>,
   <<"g", "o", "o", "d">>,
   <<"g", "r", "e", "a", "t">>,
   <<"w", "o", "n", "d", "e", "r", "f", "u", "l">>,
   <<"e", "x", "c", "i", "t", "e", "d">>,
   <<"g", "r", "a", "t", "e", "f", "u", "l">>,
   <<"l", "o", "v", "e">>,
   <<"j", "o", "y">>}
NegativeWords ==
  {<<"s", "a", "d">>,
   <<"a", "n", "g", "r", "y">>,
   <<"f", "r", "u", "s", "t", "r", "a", "t", "e", "d">>,
   <<"a", "n", "x", "i", "o", "u", "s">>,
   <<"w", "o", "r", "r", "i", "e", "d">>,
   <<"s", "t", "r", "e", "s", "s", "e", "d">>,
   <<"t", "i", "r", "e", "d">>,
   <<"h", "u", "r", "t">>}

MockInsights ==
  <<JsString("Your entry shows self-reflection and emotional awareness."),
    JsString("Consider exploring the emotions mentioned through journaling."),
    JsString("Remember that all emotions are valid and temporary.")>>

\* mutant of MockLabel: the thresholds belong to the upper band
MockLabelInclusive(num, den) ==
  IF 10 * num >= 5 * den THEN "Very Positive"
  ELSE IF 10 * num >= 2 * den THEN "Positive"
  ELSE IF 10 * num <= (0 - 5) * den THEN "Very Negative"
  ELSE IF 10 * num <= (0 - 2) * den THEN "Negative"
  ELSE "Neutral"

\* the label getMockSentimentAnalysis gives the score num/den, den > 0
MockLabel(num, den) ==
  IF 10 * num > 5 * den THEN "Very Positive"
  ELSE IF 10 * num > 2 * den THEN "Positive"
  ELSE IF 10 * num < (0 - 5) * den THEN "Very Negative"
  ELSE IF 10 * num < (0 - 2) * den THEN "Negative"
  ELSE "Neutral"

getMockSentimentAnalysis(text) ==
  LET lowerText == toLowerCase(text)
      positiveCount == Cardinality({w \in PositiveWords : includes(lowerText, w)})
      negativeCount == Cardinality({w \in NegativeWords : includes(lowerText, w)})
      total == positiveCount + negativeCount
      \* (positiveCount - negativeCount) / Math.max(total, 1) * 0.8
      num == 8 * (positiveCount - negativeCount)
      den == 10 * (IF total > 1 THEN total ELSE 1)
      \* Math.max(-1, Math.min(1, score))
      score == IF num > den THEN JsNumber(1, 1)
               ELSE IF num < 0 - den THEN JsNumber(0 - 1, 1)
               ELSE JsNumber(num, den)
  IN JsObject([score |-> score,
               label |-> JsString(MockLabel(score.num, score.den)),
               insights |-> JsArray(MockInsights)])

\* the pieces that stand for a code fence (three backquotes) and for a code
\* fence followed by the word json
Fence == "<fence>"
FenceJson == "<fence>json"

RECURSIVE StripFences(_)
\* raw.replace(/FenceJson\n?|\n?Fence/g, '')
StripFences(raw) ==
  IF raw = <<>> THEN <<>>
  ELSE IF raw[1] = FenceJson
  THEN IF Len(raw) > 1 /\ raw[2] = "\n"
       THEN StripFences(SubSeq(raw, 3, Len(raw)))
       ELSE StripFences(Tail(raw))
  ELSE IF raw[1] = "\n" /\ Len(raw) > 1 /\ raw[2] = Fence
  THEN StripFences(SubSeq(raw, 3, Len(raw)))
  ELSE IF raw[1] = Fence THEN StripFences(Tail(raw))
  ELSE <<raw[1]>> \o StripFences(Tail(raw))

\* JSON documents the oracle may answer with, and the values they denote
JsonDocuments ==
  {"{score: 0.6, label: Very Positive, insights: [calm, hopeful]}",
   "{score: -0.3, label: Negative, insights: [tense]}",
   "{score: 0.9, label: Negative, insights: [mixed]}",
   "{score: 5, label: Positive, insights: []}",
   "{score: 0.6}",
   "{sentiment: good}",
   "null",
   "[]"}

JsonValue(document) ==
  CASE document = "{score: 0.6, label: Very Positive, insights: [calm, hopeful]}" ->
         JsObject([score |-> JsNumber(6, 10), label |-> JsString("Very Positive"),
                   insights |-> JsArray(<<JsString("calm"), JsString("hopeful")>>)])
    [] document = "{score: -0.3, label: Negative, insights: [tense]}" ->
         JsObject([score |-> JsNumber(0 - 3, 10), label |-> JsString("Negative"),
                   insights |-> JsArray(<<JsString("tense")>>)])
    [] document = "{score: 0.9, label: Negative, insights: [mixed]}" ->
         JsObject([score |-> JsNumber(9, 10), label |-> JsString("Negative"),
                   insights |-> JsArray(<<JsString("mixed")>>)])
    [] document = "{score: 5, label: Positive, insights: []}" ->
         JsObject([score |-> JsNumber(5, 1), label |-> JsString("Positive"),
                   insights |-> JsArray(<<>>)])
    [] document = "{score: 0.6}" -> JsObject([score |-> JsNumber(6, 10)])
    [] document = "{sentiment: good}" -> JsObject([sentiment |-> JsString("good")])
    [] document = "null" -> JsNull
    [] document = "[]" -> JsArray(<<>>)

\* JSON.parse: a text that is one JSON document parses to its value, any
\* other text (empty, prose, a document with text around it) throws
JsonParses(jsonText) == Len(jsonText) = 1 /\ jsonText[1] \in JsonDocuments

JsonParse(jsonText) == JsonValue(jsonText[1])

\* mutant of analyzeSentiment: the result of the call before is handed out
\* again
analyzeSentimentCached(text, response) ==
  reply' = Replied("analyzeSentiment", text, response,
                   IF reply.op = "analyzeSentiment" THEN reply.result
                   ELSE getMockSentimentAnalysis(text))

\* the parsed value is returned as it is
analyzeSentiment(text, response) ==
  LET raw == callGeminiSimple(response)
      jsonText == trim(StripFences(raw))
  IN reply' = Replied("analyzeSentiment", text, response,
                      IF raw = Null THEN getMockSentimentAnalysis(text)
                      ELSE IF JsonParses(jsonText) THEN JsonParse(jsonText)
                      ELSE getMockSentimentAnalysis(text))

(***************************************************************************)
(* The calls the screens make, and their arguments.                        *)
(***************************************************************************)
Times == 1..MaxTime

\* the five-point mood scale of the mood screen
Moods == 1..5

\* the window the mood screen asks getMoodPatterns for
PatternDays == 7

MoodSamples == {[mood |-> 4, emotions |-> <<"Happy", "Calm">>]}

MoodInputs ==
  {[userId |-> u, mood |-> m.mood, emotions |-> m.emotions,
    note |-> Undefined, timestamp |-> t] :
     u \in Users, m \in MoodSamples, t \in Times}

JournalInputs ==
  {[userId |-> u, content |-> "draft", prompt |-> Undefined, timestamp |-> t] :
     u \in Users, t \in Times}

JournalUpdates == {[content |-> "edited", updatedAt |-> MaxTime]}

ChatMessage(n, role, t) ==
  [id |-> n, role |-> role, content |-> "text", timestamp |-> t]

ChatInputs ==
  {[userId |-> u, messages |-> <<ChatMessage(1, "user", t)>>,
    startedAt |-> t, lastMessageAt |-> t] :
     u \in Users, t \in Times}

ChatTranscripts ==
  {<<ChatMessage(1, "user", 1), ChatMessage(2, "assistant", now)>>}

\* ids a caller may pass: every id handed out so far, and ids never created
RecordIds(kind) ==
  {<<kind, t>> : t \in 0..MaxNow} \cup {DocId(n) : n \in 1..nextDocId}

Limits == 0..MaxLimit

SaveMood(outcomes) ==
  \E entry \in MoodInputs, outcome \in outcomes :
    /\ CanSave(outcome)
    /\ saveMoodEntry(entry, outcome)
    /\ UNCHANGED <<sessionVars, screenVars, awaiting, oracleVars, demoMode, now, localJournalEntries, localChatSessions,
                   remoteJournalEntries, remoteChatSessions>>

\* mutant of GetMood: the local read sorts and cuts the store itself
GetMoodSortingStore(outcomes) ==
  \E userId \in Users, limitCount \in Limits, outcome \in outcomes :
    /\ getMoodEntries(userId, limitCount, outcome)
    /\ localMoodEntries' =
         IF MoodEntriesRead(userId, limitCount, outcome).path # "remote"
         THEN MoodEntriesRead(userId, limitCount, outcome).rows
         ELSE localMoodEntries
    /\ UNCHANGED <<sessionVars, screenVars, awaiting, oracleVars, demoMode, now,
                   nextDocId, localJournalEntries, localChatSessions,
                   remoteMoodEntries, remoteJournalEntries, remoteChatSessions,
                   pending>>

GetMood(outcomes) ==
  \E userId \in Users, limitCount \in Limits, outcome \in outcomes :
    /\ getMoodEntries(userId, limitCount, outcome)
    /\ UNCHANGED <<sessionVars, screenVars, awaiting, oracleVars, demoMode, now, nextDocId, storeVars, pending>>

GetPatterns(outcomes) ==
  \E userId \in Users, days \in Limits, outcome \in outcomes :
    /\ getMoodPatterns(userId, days, outcome)
    /\ UNCHANGED <<sessionVars, screenVars, awaiting, oracleVars, demoMode, now, nextDocId, storeVars, pending>>

SaveJournal(outcomes) ==
  \E entry \in JournalInputs, outcome \in outcomes :
    /\ CanSave(outcome)
    /\ saveJournalEntry(entry, outcome)
    /\ UNCHANGED <<sessionVars, screenVars, awaiting, oracleVars, demoMode, now, localMoodEntries, localChatSessions,
                   remoteMoodEntries, remoteChatSessions>>

GetJournal(outcomes) ==
  \E userId \in Users, limitCount \in Limits, outcome \in outcomes :
    /\ getJournalEntries(userId, limitCount, outcome)
    /\ UNCHANGED <<sessionVars, screenVars, awaiting, oracleVars, demoMode, now, nextDocId, storeVars, pending>>

UpdateJournal(outcomes) ==
  \E id \in RecordIds("journal"), updates \in JournalUpdates, outcome \in outcomes :
    /\ CanTimeOut(outcome)
    /\ updateJournalEntry(id, updates, outcome)
    /\ UNCHANGED <<sessionVars, screenVars, awaiting, oracleVars, demoMode, now, nextDocId, localMoodEntries, localChatSessions,
                   remoteMoodEntries, remoteChatSessions>>

DeleteJournal(outcomes) ==
  \E id \in RecordIds("journal"), outcome \in outcomes :
    /\ CanTimeOut(outcome)
    /\ deleteJournalEntry(id, outcome)
    /\ UNCHANGED <<sessionVars, screenVars, awaiting, oracleVars, demoMode, now, nextDocId, localMoodEntries, localChatSessions,
                   remoteMoodEntries, remoteChatSessions>>

SaveChat(outcomes) ==
  \E session \in ChatInputs, outcome \in outcomes :
    /\ CanSave(outcome)
    /\ saveChatSession(session, outcome)
    /\ UNCHANGED <<sessionVars, screenVars, awaiting, oracleVars, demoMode, now, localMoodEntries, localJournalEntries,
                   remoteMoodEntries, remoteJournalEntries>>

UpdateChat(outcomes) ==
  \E id \in RecordIds("chat"), messages \in ChatTranscripts, outcome \in outcomes :
    /\ CanTimeOut(outcome)
    /\ updateChatSession(id, messages, outcome)
    /\ UNCHANGED <<sessionVars, screenVars, awaiting, oracleVars, demoMode, now, nextDocId, localMoodEntries, localJournalEntries,
                   remoteMoodEntries, remoteJournalEntries>>

GetChat(outcomes) ==
  \E userId \in Users, outcome \in outcomes :
    /\ getChatSessions(userId, outcome)
    /\ UNCHANGED <<sessionVars, screenVars, awaiting, oracleVars, demoMode, now, nextDocId, storeVars, pending>>

\* a chat screen that starts a session now, the remote store being down; the
\* first user keeps starting sessions
SaveChatOffline ==
  \E userId \in Users :
    /\ Len(localChatSessions) < MaxChatSessions
    /\ userId = "u1" \/ CountOf(localChatSessions, userId) < MaxOtherSessions
    /\ saveChatSession([userId |-> userId,
                        messages |-> <<ChatMessage(1, "user", now)>>,
                        startedAt |-> now, lastMessageAt |-> now], "error")
    /\ UNCHANGED <<sessionVars, screenVars, awaiting, oracleVars, demoMode, now, localMoodEntries, localJournalEntries,
                   remoteMoodEntries, remoteJournalEntries>>

\* the Gemini API key is configured or not
ApiKeys == {"", "key"}

\* pieces of chat messages
MessageWords ==
  {<<"a", "n", "x", "i", "o", "u", "s">>,
   <<"a", "n", "x", "i", "e", "t", "y">>,
   <<"w", "o", "r", "r", "i", "e", "d">>,
   <<"s", "a", "d">>,
   <<"d", "e", "p", "r", "e", "s", "s", "e", "d">>,
   <<"d", "o", "w", "n">>,
   <<"s", "t", "r", "e", "s", "s">>,
   <<"o", "v", "e", "r", "w", "h", "e", "l", "m", "e", "d">>,
   <<"a", "n", "g", "r", "y">>,
   <<"m", "a", "d">>,
   <<"f", "r", "u", "s", "t", "r", "a", "t", "e", "d">>,
   <<"s", "l", "e", "e", "p">>,
   <<"i", "n", "s", "o", "m", "n", "i", "a">>,
   <<"t", "i", "r", "e", "d">>,
   <<"h", "e", "l", "l", "o">>,
   <<"h", "i">>,
   <<"h", "e", "y">>,
   <<"S", "A", "D">>,
   <<"H", "e", "l", "l", "o">>,
   <<"t", "h", "i", "s">>,
   <<"o", "k">>,
   <<"W", "o", "r", "r", "i", "e", "d">>}

\* a message of more than QuoteLength characters without any keyword
LongMessage == [i \in 1..(QuoteLength + 1) |-> "x"]

\* the words that are put together into longer messages
PairedWords ==
  {<<"s", "a", "d">>,
   <<"S", "A", "D">>,
   <<"h", "e", "l", "l", "o">>,
   <<"h", "i">>,
   <<"a", "n", "x", "i", "o", "u", "s">>}

ChatMessages ==
  {<<>>, LongMessage} \cup MessageWords
  \cup {a \o <<" ">> \o b : a \in PairedWords, b \in PairedWords}

\* pieces of journal texts
JournalWords ==
  {<<"h", "a", "p", "p", "y">>,
   <<"g", "o", "o", "d">>,
   <<"g", "r", "a", "t", "e", "f", "u", "l">>,
   <<"L", "o", "v", "e">>,
   <<"s", "a", "d">>,
   <<"t", "i", "r", "e", "d">>,
   <<"H", "u", "r", "t">>,
   <<"s", "t", "r", "e", "s", "s", "e", "d">>,
   <<"f", "i", "n", "e">>}

PairedJournalWords ==
  {<<"h", "a", "p", "p", "y">>,
   <<"L", "o", "v", "e">>,
   <<"s", "a", "d">>,
   <<"t", "i", "r", "e", "d">>}

JournalTexts ==
  {<<>>} \cup JournalWords
  \cup {a \o <<" ">> \o b : a \in PairedJournalWords, b \in PairedJournalWords}

NoTextResponses ==
  {OracleResponse(kind, <<>>) : kind \in ResponseKinds \ {"text"}}

\* what the oracle may answer to a chat message
ChatResponses ==
  NoTextResponses
  \cup {OracleResponse("text", text) :
          text \in {<<>>, <<" ", "\n">>, <<"Take a slow breath.">>,
                    <<" ", "That sounds hard.", "\n">>}}

\* what the oracle may answer to a sentiment prompt
SentimentResponses ==
  NoTextResponses
  \cup {OracleResponse("text", text) :
          text \in {<<>>, <<"This entry reads as positive.">>,
                    <<"Here is the analysis:", "\n", "{score: 0.6}">>,
                    <<FenceJson, "\n",
                      "{score: -0.3, label: Negative, insights: [tense]}",
                      "\n", Fence>>,
                    <<FenceJson, "{score: 0.6}", Fence, "\n">>}}
  \cup {OracleResponse("text", <<d>>) : d \in JsonDocuments}

SendChat ==
  \E message \in ChatMessages, response \in ChatResponses :
    /\ sendChatMessage(message, response)
    /\ UNCHANGED <<sessionVars, screenVars, awaiting, GEMINI_API_KEY, demoMode, now, nextDocId, storeVars, pending, ret>>

AnalyzeSentiment ==
  \E text \in JournalTexts, response \in SentimentResponses :
    /\ analyzeSentiment(text, response)
    /\ UNCHANGED <<sessionVars, screenVars, awaiting, GEMINI_API_KEY, demoMode, now, nextDocId, storeVars, pending, ret>>

(***************************************************************************)
(* The user session (UserProvider) and the profile documents.  An optional *)
(* value is a sequence: <<>> is null, <<v>> the value v.                   *)
(***************************************************************************)
\* a call that threw to its caller
Raised(op, userId) ==
  [Returned(op, "none", NoId, <<>>, userId, 0, NoPatterns) EXCEPT !.raised = TRUE]

\* the store changes of saveUserProfile; it returns nothing and never throws
saveUserProfile(userId, profile, outcome) ==
  IF demoMode
  THEN /\ localUserProfiles' = [localUserProfiles EXCEPT ![userId] = <<profile>>]
       /\ UNCHANGED <<remoteUserProfiles, pending>>
  ELSE LET payload == RemoveUndefined([profile EXCEPT
                        !.completedAt = TimestampFromDate(profile.completedAt)])
       IN IF outcome = "ok"
          THEN /\ remoteUserProfiles' =
                    [remoteUserProfiles EXCEPT ![userId] = <<payload>>]
               /\ UNCHANGED <<localUserProfiles, pending>>
          ELSE /\ localUserProfiles' =
                    [localUserProfiles EXCEPT ![userId] = <<profile>>]
               /\ pending' = IF outcome = "timeout"
                             THEN Append(pending,
                                    PendingCall("setDoc", "userProfiles", userId, payload))
                             ELSE pending
               /\ UNCHANGED remoteUserProfiles

\* the path saveUserProfile took
ProfilePath(outcome) ==
  IF demoMode THEN "local" ELSE IF outcome = "ok" THEN "remote" ELSE "fallback"

\* getUserProfile: the profile or null
getUserProfile(userId, outcome) ==
  IF demoMode THEN localUserProfiles[userId]
  ELSE IF outcome = "ok"
  THEN IF remoteUserProfiles[userId] # <<>>
       THEN <<[remoteUserProfiles[userId][1] EXCEPT
                 !.completedAt = TimestampToDate(@)]>>
       ELSE <<>>
  ELSE localUserProfiles[userId]

\* the callback of onAuthStateChanged: firebaseUser is <<>> (signed out) or
\* <<uid>>
onAuthStateChanged(firebaseUser, outcome) ==
  IF firebaseUser # <<>>
  THEN LET profile == getUserProfile(firebaseUser[1], outcome)
       IN /\ user' = <<[id |-> firebaseUser[1], name |-> "User", email |-> "",
                        profile |-> profile]>>
          /\ hasCompletedProfile' = (profile # <<>>)
  ELSE /\ user' = <<>>
       /\ hasCompletedProfile' = FALSE

(***************************************************************************)
(* The routes of the application.  An element renders to a page, to the    *)
(* loading spinner, or to a Navigate that replaces the location.           *)
(***************************************************************************)
MainRoutes == {"/home", "/profile", "/chat", "/mood", "/journal", "/therapists"}
Paths == {"/", "/signup", "/login"} \cup MainRoutes

Page(name) == [kind |-> "page", what |-> name]
LoadingSpinner == [kind |-> "loading", what |-> "spinner"]
NavigateTo(to) == [kind |-> "navigate", what |-> to]

\* mutant of ProtectedRoute: the children are rendered without a user
ProtectedRouteUnchecked(children, currentUser, loading) ==
  IF loading THEN LoadingSpinner ELSE children

ProtectedRoute(children, currentUser, loading) ==
  IF loading THEN LoadingSpinner
  ELSE IF currentUser = <<>> THEN NavigateTo("/login")
  ELSE children

PublicOnlyRoute(children, currentUser, loading) ==
  IF loading THEN LoadingSpinner
  ELSE IF currentUser # <<>> THEN NavigateTo("/home")
  ELSE children

\* the page each main route wraps in ProtectedRoute
MainPage(pathname) ==
  CASE pathname = "/home" -> Page("Home")
    [] pathname = "/profile" -> Page("Profile")
    [] pathname = "/chat" -> Page("Chatbot")
    [] pathname = "/mood" -> Page("MoodTracker")
    [] pathname = "/journal" -> Page("Journal")
    [] pathname = "/therapists" -> Page("TherapistFinder")

\* what AppRoutes renders at a location
AppRoutes(pathname, currentUser, loading) ==
  IF ~loading /\ currentUser # <<>> /\ pathname \in {"/", "/login"}
  THEN NavigateTo("/home")
  ELSE IF pathname = "/" THEN Page("Landing")
  ELSE IF pathname = "/signup" THEN Page("SignUp")
  ELSE IF pathname = "/login"
  THEN PublicOnlyRoute(Page("Login"), currentUser, loading)
  ELSE ProtectedRoute(MainPage(pathname), currentUser, loading)

RECURSIVE Settle(_, _, _)
\* the location after every Navigate that rendering produces has been
\* followed
Settle(pathname, currentUser, loading) ==
  LET element == AppRoutes(pathname, currentUser, loading)
  IN IF element.kind = "navigate"
     THEN Settle(element.what, currentUser, loading)
     ELSE pathname

\* what is on the screen
Shown == AppRoutes(location, user, isLoading)

\* mutant of completeProfile: a failed or timed out remote write is thrown
\* to the caller
completeProfileThrowing(data, outcome) ==
  IF user = <<>> \/ (~demoMode /\ outcome # "ok")
  THEN /\ ret' = Raised("completeProfile", "none")
       /\ UNCHANGED <<user, hasCompletedProfile, profileVars, pending>>
  ELSE LET fullProfile ==
             [goal |-> data.profile.goal, completedAt |-> now]
       IN /\ saveUserProfile(user[1].id, fullProfile, outcome)
          /\ user' = <<[user[1] EXCEPT !.name = data.name, !.email = data.email,
                                       !.profile = <<fullProfile>>]>>
          /\ hasCompletedProfile' = TRUE
          /\ ret' = Returned("completeProfile", ProfilePath(outcome), NoId,
                             <<fullProfile>>, user[1].id, 0, NoPatterns)

\* completeProfile; data.profile gets completedAt: new Date()
completeProfile(data, outcome) ==
  IF user = <<>>
  THEN /\ ret' = Raised("completeProfile", "none")
       /\ UNCHANGED <<user, hasCompletedProfile, profileVars, pending>>
  ELSE LET fullProfile ==
             [goal |-> data.profile.goal, completedAt |-> now]
       IN /\ saveUserProfile(user[1].id, fullProfile, outcome)
          /\ user' = <<[user[1] EXCEPT !.name = data.name, !.email = data.email,
                                       !.profile = <<fullProfile>>]>>
          /\ hasCompletedProfile' = TRUE
          /\ ret' = Returned("completeProfile", ProfilePath(outcome), NoId,
                             <<fullProfile>>, user[1].id, 0, NoPatterns)

\* what the sign-up form hands to completeProfile
ProfileForms ==
  {[name |-> "Ann", email |-> "ann@example.org", profile |-> [goal |-> g]] :
     g \in {"sleep", "stress"}}

AuthStateChanged ==
  \E firebaseUser \in {<<>>} \cup {<<u>> : u \in Users}, outcome \in Outcomes :
    /\ onAuthStateChanged(firebaseUser, outcome)
    /\ isLoading' = FALSE
    /\ location' = Settle(location, user', FALSE)
    /\ UNCHANGED <<oracleVars, profileVars, demoMode, now, nextDocId, storeVars,
                   pending, ret, chatbotMessages, selectedExercise, calls, awaiting,
                   flightVars>>

\* the user follows a link or types an address
GoTo ==
  \E pathname \in Paths :
    /\ location' = Settle(pathname, user, isLoading)
    /\ UNCHANGED <<sessionVars, oracleVars, demoMode, now, nextDocId, storeVars,
                   pending, ret, isLoading, chatbotMessages, selectedExercise, calls,
                   flightVars,
                   awaiting>>

CompleteProfile ==
  \E data \in ProfileForms, outcome \in Outcomes :
    /\ CanTimeOut(outcome)
    /\ completeProfile(data, outcome)
    /\ UNCHANGED <<screenVars, awaiting, oracleVars, demoMode, now, nextDocId, storeVars>>

\* nobody is signed in and no profile is stored
InitSession ==
  /\ user = <<>>
  /\ hasCompletedProfile = FALSE
  /\ localUserProfiles = [u \in Users |-> <<>>]
  /\ remoteUserProfiles = [u \in Users |-> <<>>]
  /\ isLoading = TRUE
  /\ location = "/"
  /\ chatbotMessages = <<>>
  /\ selectedExercise = <<>>
  /\ calls = <<>>
  /\ awaiting = <<>>
  /\ chatIsLoading = FALSE
  /\ isMounted = TRUE
  /\ authCallbacks = <<>>
  /\ authUser = <<>>

Init ==
  /\ GEMINI_API_KEY \in ApiKeys
  /\ reply = NoReply
  /\ InitSession
  /\ demoMode \in BOOLEAN
  /\ now = 1
  /\ nextDocId = 1
  /\ localMoodEntries = <<>>
  /\ localJournalEntries = <<>>
  /\ localChatSessions = <<>>
  /\ remoteMoodEntries = <<>>
  /\ remoteJournalEntries = <<>>
  /\ remoteChatSessions = <<>>
  /\ pending = <<>>
  /\ ret = NoReturn

\* a remote call succeeds, throws, or runs into its timeout
Next ==
  \/ SaveMood(Outcomes) \/ GetMood(Outcomes) \/ GetPatterns(Outcomes)
  \/ SaveJournal(Outcomes) \/ GetJournal(Outcomes)
  \/ UpdateJournal(Outcomes) \/ DeleteJournal(Outcomes)
  \/ SaveChat(Outcomes) \/ UpdateChat(Outcomes) \/ GetChat(Outcomes)
  \/ SendChat \/ AnalyzeSentiment
  \/ AuthStateChanged \/ CompleteProfile \/ GoTo
  \/ LateResolve \/ LateReject \/ Tick

Spec == Init /\ [][Next]_vars

\* the record store never reads the Gemini API key: its specifications
\* start without one
InitStore == Init /\ GEMINI_API_KEY = ""

\* remote calls that answer within the timeout
Answered == {"ok", "error"}

\* the three saves alone
NextSave ==
  \/ SaveMood(Outcomes) \/ SaveJournal(Outcomes) \/ SaveChat(Outcomes)
  \/ LateResolve \/ LateReject \/ Tick
SpecSave == InitStore /\ [][NextSave]_vars

\* the mood screen
NextMood ==
  \/ SaveMood(Outcomes) \/ GetMood(Outcomes) \/ GetPatterns(Outcomes)
  \/ LateResolve \/ LateReject \/ Tick
SpecMood == InitStore /\ [][NextMood]_vars

\* the journal's writes, every remote call answering within the timeout
NextJournalWrites ==
  \/ SaveJournal(Answered) \/ UpdateJournal(Answered) \/ DeleteJournal(Answered)
  \/ Tick
SpecJournalWrites == InitStore /\ [][NextJournalWrites]_vars

(***************************************************************************)
(* A call of saveJournalEntry, deleteJournalEntry or getJournalEntries in   *)
(* two steps: the call is made and waits in withTimeout, then the remote   *)
(* promise resolves or rejects, or the timer fires.  In demo mode, and     *)
(* when limit() throws before the request is made, the call returns at     *)
(* once.                                                                   *)
(***************************************************************************)
Awaited(op, arg) == [op |-> op, arg |-> arg]

\* the call made, run to its end with the outcome of its remote promise
Run(call, outcome) ==
  /\ CASE call.op = "saveJournalEntry" ->
            saveJournalEntry(call.arg.entry, outcome)
       [] call.op = "deleteJournalEntry" ->
            /\ deleteJournalEntry(call.arg.id, outcome)
            /\ UNCHANGED nextDocId
       [] call.op = "getJournalEntries" ->
            /\ getJournalEntries(call.arg.userId, call.arg.limitCount, outcome)
            /\ UNCHANGED <<localJournalEntries, remoteJournalEntries, nextDocId,
                           pending>>
  /\ UNCHANGED <<sessionVars, screenVars, oracleVars, demoMode, now,
                 localMoodEntries, localChatSessions, remoteMoodEntries,
                 remoteChatSessions>>

\* whether the call gets as far as withTimeout
Waits(call) ==
  /\ ~demoMode
  /\ ~(call.op = "getJournalEntries" /\ QueryThrows(call.arg.limitCount))

Begin(call) ==
  /\ awaiting = <<>>
  /\ IF Waits(call)
     THEN /\ awaiting' = <<call>>
          /\ UNCHANGED <<sessionVars, screenVars, oracleVars, demoMode, now,
                         nextDocId, storeVars, pending, ret>>
     ELSE /\ Run(call, "error")
          /\ UNCHANGED awaiting

CallSaveJournal ==
  \E entry \in JournalInputs :
    /\ CanSave("timeout")
    /\ RecordCount < MaxAwaited
    /\ Begin(Awaited("saveJournalEntry", [entry |-> entry]))

CallDeleteJournal ==
  \E id \in RecordIds("journal") :
    /\ CanTimeOut("timeout")
    /\ Begin(Awaited("deleteJournalEntry", [id |-> id]))

CallGetJournal ==
  \E userId \in Users, limitCount \in Limits :
    Begin(Awaited("getJournalEntries",
                  [userId |-> userId, limitCount |-> limitCount]))

\* the remote promise resolves within the timeout
RemoteResolves ==
  /\ awaiting # <<>>
  /\ Run(awaiting[1], "ok")
  /\ awaiting' = <<>>

\* the remote promise rejects within the timeout
RemoteRejects ==
  /\ awaiting # <<>>
  /\ Run(awaiting[1], "error")
  /\ awaiting' = <<>>

\* mutant of TimerFires: the timer's callback does not reject the promise
\* the call waits for
TimerFiresUnheard ==
  /\ awaiting # <<>>
  /\ UNCHANGED vars

\* the timer of withTimeout fires: the promise is rejected with 'timeout'
\* while the remote promise stays in flight
TimerFires ==
  /\ awaiting # <<>>
  /\ Run(awaiting[1], "timeout")
  /\ awaiting' = <<>>

NextAwait ==
  \/ CallSaveJournal \/ CallDeleteJournal \/ CallGetJournal
  \/ RemoteResolves \/ RemoteRejects \/ TimerFires
  \/ LateResolve \/ LateReject
\* setTimeout calls its callback: the timer of a waiting call fires unless
\* the remote promise settles first
SpecAwait == InitStore /\ [][NextAwait]_vars /\ WF_vars(TimerFires)

\* demo mode: no Firebase API key is configured
InitDemo == InitStore /\ demoMode
NextDemo ==
  \/ SaveMood(Outcomes) \/ GetMood(Outcomes)
  \/ SaveJournal(Outcomes) \/ GetJournal(Outcomes) \/ Tick
SpecDemo == InitDemo /\ [][NextDemo]_vars

\* saves, reads and deletes of journal entries, every remote call answering
\* within the timeout
NextVisible ==
  \/ SaveJournal(Answered) \/ GetJournal(Answered) \/ DeleteJournal(Answered)
  \/ Tick
SpecVisible == InitStore /\ [][NextVisible]_vars

\* the remote store is configured and unreachable while chat sessions pile up
InitRemote == InitStore /\ ~demoMode
NextChatFallback == SaveChatOffline \/ GetChat(Outcomes) \/ Tick
SpecChatFallback == InitRemote /\ [][NextChatFallback]_vars

\* the remote store answers no write within the timeout; its answers arrive
\* later, or never
TimedOut == {"timeout"}
NextLate ==
  \/ SaveMood(TimedOut) \/ SaveJournal(TimedOut)
  \/ UpdateJournal(TimedOut) \/ DeleteJournal(TimedOut)
  \/ LateResolve \/ LateReject \/ Tick
SpecLate == InitRemote /\ [][NextLate]_vars

\* the mood screen asks for the patterns of the last PatternDays entries
GetPatternsWeek ==
  \E userId \in Users, outcome \in Answered :
    /\ getMoodPatterns(userId, PatternDays, outcome)
    /\ UNCHANGED <<sessionVars, screenVars, awaiting, oracleVars, demoMode, now, nextDocId, storeVars, pending>>

\* the entry logged as the i-th of a user, one entry a day
LoggedEntry(userId, i, mood, emotions) ==
  [id |-> <<"mood", i>>, userId |-> userId, mood |-> mood,
   emotions |-> emotions, note |-> Undefined, timestamp |-> i]

\* demo mode after the first user logged the moods of a window, oldest first
InitTrend ==
  /\ GEMINI_API_KEY = ""
  /\ reply = NoReply
  /\ InitSession
  /\ demoMode = TRUE
  /\ nextDocId = 1
  /\ \E moods \in UNION {[1..n -> Moods] : n \in 0..MaxWindow} :
       /\ localMoodEntries =
            [i \in DOMAIN moods |-> LoggedEntry("u1", i, moods[i], <<>>)]
       /\ now = Len(moods) + 1
  /\ localJournalEntries = <<>>
  /\ localChatSessions = <<>>
  /\ remoteMoodEntries = <<>>
  /\ remoteJournalEntries = <<>>
  /\ remoteChatSessions = <<>>
  /\ pending = <<>>
  /\ ret = NoReturn

NextTrend == GetPatternsWeek
SpecTrend == InitTrend /\ [][NextTrend]_vars

\* emotion lists the mood screen can submit (tags toggled in any order)
EmotionMenus ==
  {<<"Happy", "Calm">>, <<"Happy">>, <<"Happy", "Sad">>, <<"Calm">>,
   <<"Anxious", "Stressed", "Tired">>, <<"Tired", "Lonely", "Hopeful", "Sad">>,
   <<"Lonely", "Calm", "Anxious">>, <<>>}

\* demo mode after the first user logged entries with emotion tags
InitEmotions ==
  /\ GEMINI_API_KEY = ""
  /\ reply = NoReply
  /\ InitSession
  /\ demoMode = TRUE
  /\ nextDocId = 1
  /\ \E tags \in UNION {[1..n -> EmotionMenus] : n \in 0..MaxTagged} :
       /\ localMoodEntries =
            [i \in DOMAIN tags |-> LoggedEntry("u1", i, 3, tags[i])]
       /\ now = Len(tags) + 1
  /\ localJournalEntries = <<>>
  /\ localChatSessions = <<>>
  /\ remoteMoodEntries = <<>>
  /\ remoteJournalEntries = <<>>
  /\ remoteChatSessions = <<>>
  /\ pending = <<>>
  /\ ret = NoReturn

NextEmotions == GetPatternsWeek
SpecEmotions == InitEmotions /\ [][NextEmotions]_vars

\* the chat of the Gemini client
NextChat == SendChat
SpecChat == Init /\ [][NextChat]_vars

\* the sentiment analysis of the Gemini client
NextSentiment == AnalyzeSentiment
SpecSentiment == Init /\ [][NextSentiment]_vars

\* the word lists of the local scorer, in the order of the source
PositiveWordList ==
  <<<<"h", "a", "p", "p", "y">>,
    <<"g", "o", "o", "d">>,
    <<"g", "r", "e", "a", "t">>,
    <<"w", "o", "n", "d", "e", "r", "f", "u", "l">>,
    <<"e", "x", "c", "i", "t", "e", "d">>,
    <<"g", "r", "a", "t", "e", "f", "u", "l">>,
    <<"l", "o", "v", "e">>,
    <<"j", "o", "y">>>>
NegativeWordList ==
  <<<<"s", "a", "d">>,
    <<"a", "n", "g", "r", "y">>,
    <<"f", "r", "u", "s", "t", "r", "a", "t", "e", "d">>,
    <<"a", "n", "x", "i", "o", "u", "s">>,
    <<"w", "o", "r", "r", "i", "e", "d">>,
    <<"s", "t", "r", "e", "s", "s", "e", "d">>,
    <<"t", "i", "r", "e", "d">>,
    <<"h", "u", "r", "t">>>>

RECURSIVE JoinWords(_)
\* the words of a list, one space between two words
JoinWords(words) ==
  IF words = <<>> THEN <<>>
  ELSE IF Len(words) = 1 THEN words[1]
  ELSE words[1] \o <<" ">> \o JoinWords(Tail(words))

\* journal texts with p positive and n negative words, for every p and n
CountedTexts ==
  {JoinWords(SubSeq(PositiveWordList, 1, p) \o SubSeq(NegativeWordList, 1, n)) :
     p \in 0..Len(PositiveWordList), n \in 0..Len(NegativeWordList)}

\* the oracle fails, or answers with a sentiment document
ScorerResponses ==
  {OracleResponse("fetchError", <<>>),
   OracleResponse("text",
     <<"{score: 0.6, label: Very Positive, insights: [calm, hopeful]}">>)}

AnalyzeCounted ==
  \E text \in CountedTexts, response \in ScorerResponses :
    /\ analyzeSentiment(text, response)
    /\ UNCHANGED <<sessionVars, screenVars, awaiting, GEMINI_API_KEY, demoMode, now, nextDocId, storeVars, pending, ret>>

\* the Gemini client never reads the Firebase configuration: its
\* specifications may start in demo mode
InitOracle == Init /\ demoMode

\* the local scorer behind analyzeSentiment
NextScorer == AnalyzeCounted
SpecScorer == InitOracle /\ [][NextScorer]_vars

\* journal texts of up to three words in which a word may return, in either
\* case
RepeatableWords ==
  {<<"g", "o", "o", "d">>, <<"G", "o", "o", "d">>, <<"s", "a", "d">>,
   <<"j", "o", "y">>, <<"d", "a", "y">>}

RepeatedTexts ==
  {JoinWords(words) :
     words \in {<<>>} \cup {<<a>> : a \in RepeatableWords}
               \cup {<<a, b>> : a \in RepeatableWords, b \in RepeatableWords}
               \cup {<<a, b, c>> : a \in RepeatableWords, b \in RepeatableWords,
                                   c \in RepeatableWords}}

AnalyzeRepeated ==
  \E text \in RepeatedTexts, response \in ScorerResponses :
    /\ analyzeSentiment(text, response)
    /\ UNCHANGED <<sessionVars, screenVars, awaiting, GEMINI_API_KEY, demoMode, now, nextDocId, storeVars, pending, ret>>

\* the local scorer on texts that repeat a word
NextRepeats == AnalyzeRepeated
SpecRepeats == InitOracle /\ [][NextRepeats]_vars

\* journal drafts that are scored more than once
DraftTexts ==
  {<<"h", "a", "p", "p", "y">>,
   <<"s", "a", "d", " ", "t", "i", "r", "e", "d">>,
   <<"L", "o", "v", "e", " ", "h", "u", "r", "t", " ", "g", "o", "o", "d">>,
   <<"f", "i", "n", "e">>}

AnalyzeDraft ==
  \E text \in DraftTexts, response \in ScorerResponses :
    /\ analyzeSentiment(text, response)
    /\ UNCHANGED <<sessionVars, screenVars, awaiting, GEMINI_API_KEY, demoMode, now, nextDocId, storeVars, pending, ret>>

\* no Gemini API key: drafts are scored while journal entries are saved
NextUnkeyed ==
  \/ AnalyzeDraft
  \/ SaveJournal(Answered)
  \/ Tick
SpecUnkeyed == InitStore /\ [][NextUnkeyed]_vars

(***************************************************************************)
(* The mood screen: the five mood buttons and handleSaveMood.              *)
(***************************************************************************)
\* mutant of MOODS: the scale is counted from zero
MOODSFromZero ==
  <<[value |-> 0, label |-> "Awful"], [value |-> 1, label |-> "Bad"],
    [value |-> 2, label |-> "Okay"], [value |-> 3, label |-> "Good"],
    [value |-> 4, label |-> "Great"]>>

MOODS ==
  <<[value |-> 1, label |-> "Awful"], [value |-> 2, label |-> "Bad"],
    [value |-> 3, label |-> "Okay"], [value |-> 4, label |-> "Good"],
    [value |-> 5, label |-> "Great"]>>

\* selectedMood: <<>> is null, <<m>> the mood m a mood button sets
MoodSelections == {<<>>} \cup {<<MOODS[b].value>> : b \in DOMAIN MOODS}

\* user?.id || 'anonymous'
ScreenUsers == {"u1", "anonymous"}

\* nothing is saved without a selected mood; MOODS.find(...)!.label throws
\* inside the try block when no button has the selected value
handleSaveMood(userId, selectedMood, selectedEmotions, outcome) ==
  IF selectedMood = <<>>
  THEN UNCHANGED <<localMoodEntries, remoteMoodEntries, nextDocId, pending, ret>>
  ELSE IF ~\E k \in DOMAIN MOODS : MOODS[k].value = selectedMood[1]
  THEN UNCHANGED <<localMoodEntries, remoteMoodEntries, nextDocId, pending, ret>>
  ELSE LET selectedMoodData ==
             MOODS[CHOOSE k \in DOMAIN MOODS : MOODS[k].value = selectedMood[1]]
       IN saveMoodEntry([userId |-> userId, mood |-> selectedMood[1],
                         moodLabel |-> selectedMoodData.label,
                         emotions |-> selectedEmotions, note |-> Undefined,
                         timestamp |-> now], outcome)

HandleSaveMood ==
  \E userId \in ScreenUsers, selectedMood \in MoodSelections, outcome \in Outcomes :
    /\ CanSave(outcome)
    /\ handleSaveMood(userId, selectedMood, <<"Calm">>, outcome)
    /\ UNCHANGED <<sessionVars, screenVars, awaiting, oracleVars, demoMode, now, localJournalEntries,
                   localChatSessions, remoteJournalEntries, remoteChatSessions>>

\* the mood screen saving entries
NextMoodScreen == HandleSaveMood \/ LateResolve \/ LateReject \/ Tick
SpecMoodScreen == InitStore /\ [][NextMoodScreen]_vars

(***************************************************************************)
(* The chat screen: handleSend and handleQuickAction.                      *)
(***************************************************************************)
\* a call of the last run of a screen handler, the handler's own first and
\* then the service calls it made in their order: the name, the text
\* argument and the record handed over (<<>> when there is none)
Called(fn, text, record) == [fn |-> fn, text |-> text, record |-> record]

getMockCBTExercise(concern) ==
  <<"Based on your concern, I'd like to guide you through a Thought Record exercise: ...Example: ">>
  \o concern \o <<"... Take your time with each step.">>

getMockDBTSkill(situation) ==
  <<"For your situation, I recommend the TIPP skill from DBT's Distress Tolerance module. ...">>

generateCBTExercise(concern, response) ==
  LET result == callGeminiSimple(response)
  IN reply' = Replied("generateCBTExercise", concern, response,
                      IF result = Null THEN getMockCBTExercise(concern) ELSE result)

generateDBTSkill(situation, response) ==
  LET result == callGeminiSimple(response)
  IN reply' = Replied("generateDBTSkill", situation, response,
                      IF result = Null THEN getMockDBTSkill(situation) ELSE result)

\* a message of the transcript; uuidv4() is its place in the transcript
ScreenMessage(n, role, content) ==
  [id |-> n, role |-> role, content |-> content, timestamp |-> now]

\* handleSend: the user's message and the assistant's reply are appended to
\* the transcript; none of the three generators throws
handleSend(input, response) ==
  IF trim(input) = <<>>
  THEN /\ calls' = <<Called("handleSend", input, <<>>)>>
       /\ UNCHANGED <<chatbotMessages, selectedExercise, reply>>
  ELSE /\ IF selectedExercise = <<"cbt">>
          THEN generateCBTExercise(trim(input), response)
          ELSE IF selectedExercise = <<"dbt">>
          THEN generateDBTSkill(trim(input), response)
          ELSE sendChatMessage(trim(input), response)
       /\ selectedExercise' = <<>>
       /\ calls' = <<Called("handleSend", input, <<>>),
                      Called(reply'.op, trim(input), <<>>)>>
       /\ chatbotMessages' =
            chatbotMessages
            \o <<ScreenMessage(Len(chatbotMessages) + 1, "user", trim(input)),
                 ScreenMessage(Len(chatbotMessages) + 2, "assistant", reply'.result)>>

handleQuickAction(type) == selectedExercise' = <<type>>

\* what the user types into the chat box
ChatDrafts ==
  {<<>>, <<" ">>, <<"h", "i">>, <<" ", "s", "a", "d", " ">>}

\* what the oracle answers on the chat screen
ScreenResponses ==
  {OracleResponse("fetchError", <<>>),
   OracleResponse("text", <<"Take a slow breath.">>)}

HandleSend ==
  \E input \in ChatDrafts, response \in ScreenResponses :
    /\ Len(chatbotMessages) + 2 <= MaxTranscript
    /\ handleSend(input, response)
    /\ UNCHANGED <<sessionVars, GEMINI_API_KEY, demoMode, now, nextDocId, storeVars,
                   pending, ret, isLoading, location, awaiting, flightVars>>

HandleQuickAction ==
  \E type \in {"cbt", "dbt"} :
    /\ handleQuickAction(type)
    /\ UNCHANGED <<sessionVars, oracleVars, demoMode, now, nextDocId, storeVars,
                   pending, ret, isLoading, location, chatbotMessages, calls, awaiting,
                   flightVars>>

\* the chat screen in use
NextChatScreen == HandleSend \/ HandleQuickAction \/ Tick
SpecChatScreen == Init /\ [][NextChatScreen]_vars

(***************************************************************************)
(* The journal screen: handleSave.                                         *)
(***************************************************************************)
\* value.name of a parsed value that is not null: the field of an object,
\* undefined for a number, a string or an array
Property(value, name) ==
  IF value.type = "object" /\ name \in DOMAIN value.fields
  THEN value.fields[name]
  ELSE JsUndefined

\* new Date().toLocaleDateString('en-US', {weekday, month, day})
FormattedDate(ms) == <<"weekday, month day of ", ToString(ms)>>

\* the record handleSave hands to saveJournalEntry
NewEntry(userId, finalTitle, content, sentiment) ==
  [userId |-> userId, title |-> finalTitle, content |-> trim(content),
   prompt |-> Undefined,
   sentimentScore |-> Property(sentiment, "score"),
   sentimentLabel |-> Property(sentiment, "label"),
   timestamp |-> now]

\* the record handleSave hands to updateJournalEntry
EntryUpdates(finalTitle, content, sentiment) ==
  [title |-> finalTitle, content |-> trim(content),
   sentimentScore |-> Property(sentiment, "score"),
   sentimentLabel |-> Property(sentiment, "label"),
   updatedAt |-> now]

\* mutant of handleSave: blank content is not turned away
handleSaveUnguarded(title, content, editingEntry, response, outcome) ==
  LET userId == IF user = <<>> THEN "anonymous" ELSE user[1].id
      finalTitle == IF trim(title) # <<>> THEN trim(title) ELSE FormattedDate(now)
  IN /\ analyzeSentiment(content, response)
     /\ IF reply'.result.type = "null"
        THEN /\ calls' = <<Called("handleSave", content, <<>>),
                           Called("analyzeSentiment", content, <<>>)>>
             /\ UNCHANGED <<localJournalEntries, remoteJournalEntries,
                            nextDocId, pending, ret>>
        ELSE IF editingEntry # <<>>
        THEN LET updates == EntryUpdates(finalTitle, content, reply'.result)
             IN /\ updateJournalEntry(editingEntry[1], updates, outcome)
                /\ calls' = <<Called("handleSave", content, <<>>),
                              Called("analyzeSentiment", content, <<>>),
                              Called("updateJournalEntry", <<>>, <<updates>>)>>
                /\ UNCHANGED nextDocId
        ELSE LET entry == NewEntry(userId, finalTitle, content, reply'.result)
             IN /\ saveJournalEntry(entry, outcome)
                /\ calls' = <<Called("handleSave", content, <<>>),
                              Called("analyzeSentiment", content, <<>>),
                              Called("saveJournalEntry", <<>>, <<entry>>)>>

\* handleSave: blank content returns at once; reading sentiment.score of
\* null throws inside the try block, and nothing is saved then
handleSave(title, content, editingEntry, response, outcome) ==
  IF trim(content) = <<>>
  THEN /\ calls' = <<Called("handleSave", content, <<>>)>>
       /\ UNCHANGED <<reply, localJournalEntries, remoteJournalEntries,
                      nextDocId, pending, ret>>
  ELSE LET userId == IF user = <<>> THEN "anonymous" ELSE user[1].id
           finalTitle == IF trim(title) # <<>> THEN trim(title)
                         ELSE FormattedDate(now)
       IN /\ analyzeSentiment(content, response)
          /\ IF reply'.result.type = "null"
             THEN /\ calls' = <<Called("handleSave", content, <<>>),
                                Called("analyzeSentiment", content, <<>>)>>
                  /\ UNCHANGED <<localJournalEntries, remoteJournalEntries,
                                 nextDocId, pending, ret>>
             ELSE IF editingEntry # <<>>
             THEN LET updates == EntryUpdates(finalTitle, content, reply'.result)
                  IN /\ updateJournalEntry(editingEntry[1], updates, outcome)
                     /\ calls' = <<Called("handleSave", content, <<>>),
                                   Called("analyzeSentiment", content, <<>>),
                                   Called("updateJournalEntry", <<>>, <<updates>>)>>
                     /\ UNCHANGED nextDocId
             ELSE LET entry == NewEntry(userId, finalTitle, content, reply'.result)
                  IN /\ saveJournalEntry(entry, outcome)
                     /\ calls' = <<Called("handleSave", content, <<>>),
                                   Called("analyzeSentiment", content, <<>>),
                                   Called("saveJournalEntry", <<>>, <<entry>>)>>

\* what the user types into the title and the content box
TitleDrafts == {<<" ">>, <<" ", "D", "a", "y">>}
ContentDrafts == {<<" ", "\n">>, <<"g", "o", "o", "d", " ">>}

\* what the oracle answers to the sentiment prompt of the journal screen
JournalResponses ==
  {OracleResponse("fetchError", <<>>),
   OracleResponse("text", <<"{score: -0.3, label: Negative, insights: [tense]}">>),
   OracleResponse("text", <<"null">>)}

\* the entry being edited: none, or one of the entries the store holds
EditableEntries ==
  {<<>>} \cup {<<e.id>> : e \in Range(localJournalEntries)
                               \cup Range(remoteJournalEntries)}

HandleSave ==
  \E title \in TitleDrafts, content \in ContentDrafts,
     editingEntry \in EditableEntries, response \in JournalResponses,
     outcome \in Outcomes :
    /\ CanSave(outcome)
    /\ editingEntry = <<>> =>
         Len(localJournalEntries) + Len(remoteJournalEntries) < MaxDrafts
    /\ handleSave(title, content, editingEntry, response, outcome)
    /\ UNCHANGED <<sessionVars, GEMINI_API_KEY, demoMode, now, localMoodEntries,
                   localChatSessions, remoteMoodEntries, remoteChatSessions,
                   isLoading, location, chatbotMessages, selectedExercise, awaiting,
                   flightVars>>

\* the journal screen in use
NextJournalScreen == HandleSave \/ Tick
SpecJournalScreen == Init /\ [][NextJournalScreen]_vars

\* signing in and out and completing the profile
NextProfile ==
  \/ AuthStateChanged \/ CompleteProfile
  \/ LateResolve \/ LateReject \/ Tick
SpecProfile == InitStore /\ [][NextProfile]_vars

\* signing in and out, completing the profile and moving between routes
NextRoutes == AuthStateChanged \/ CompleteProfile \/ GoTo
SpecRoutes == InitStore /\ [][NextRoutes]_vars

(***************************************************************************)
(* The payloads of the remote writes.  A value of the program is a record  *)
(* with its type: removeUndefined tells plain objects from arrays, dates   *)
(* and timestamps, and looks for undefined at every depth.                 *)
(***************************************************************************)
JsDate(ms) == [type |-> "date", ms |-> ms]
JsTimestamp(ts) == [type |-> "timestamp", ts |-> ts]

\* Timestamp.fromDate of a Date value
FromDate(date) == JsTimestamp(TimestampFromDate(date.ms))

\* mutant of removeUndefined: nested objects are copied as they are
removeUndefinedShallow(obj) ==
  LET kept == {k \in DOMAIN obj.fields : obj.fields[k].type # "undefined"}
  IN JsObject([k \in kept |-> obj.fields[k]])

RECURSIVE removeUndefined(_)
\* a value that is undefined is skipped; a value that is truthy, an object,
\* no array, no Date and no Timestamp is cleaned in turn; any other value
\* is copied
removeUndefined(obj) ==
  LET kept == {k \in DOMAIN obj.fields : obj.fields[k].type # "undefined"}
  IN JsObject([k \in kept |->
                 IF obj.fields[k].type = "object"
                 THEN removeUndefined(obj.fields[k])
                 ELSE obj.fields[k]])

\* messages.map(m => removeUndefined({...m, timestamp: Timestamp.fromDate(m.timestamp)}))
MessagePayloads(chatMessages) ==
  JsArray([i \in DOMAIN chatMessages.items |->
             removeUndefined(JsObject([chatMessages.items[i].fields EXCEPT
                                         !.timestamp = FromDate(@)]))])

\* the argument of the outer removeUndefined of a save: the entry with its
\* timestamp converted
EntryPayloadInput(entry) ==
  JsObject([entry.fields EXCEPT !.timestamp = FromDate(@)])

\* the argument of the outer removeUndefined of saveChatSession
SessionPayloadInput(session) ==
  JsObject([session.fields EXCEPT
              !.startedAt = FromDate(@), !.lastMessageAt = FromDate(@),
              !.messages = MessagePayloads(@)])

\* the payload of updateChatSession, built without removeUndefined
MessagesPayload(chatMessages) ==
  JsObject([messages |-> MessagePayloads(chatMessages),
            lastMessageAt |-> FromDate(JsDate(now))])

\* a remote write is handed its payload: the log holds the object the
\* payload was cleaned from and the write with the payload
HandOver(write, input, payload) ==
  /\ ~demoMode
  /\ calls' = <<Called("removeUndefined", <<>>, <<input>>),
                Called(write, <<>>, <<payload>>)>>
  /\ UNCHANGED <<sessionVars, oracleVars, demoMode, now, nextDocId, storeVars,
                 pending, ret, isLoading, location, chatbotMessages, flightVars,
                 selectedExercise, awaiting>>

\* the objects inside a journal entry: sentimentAnalysis as the type has it,
\* with fields left undefined, and with an object below it
AnalysisObjects ==
  {JsUndefined,
   JsNull,
   JsObject([score |-> JsNumber(6, 10), label |-> JsString("Positive"),
             insights |-> JsArray(<<JsString("calm")>>)]),
   JsObject([score |-> JsNumber(0, 1), label |-> JsUndefined,
             insights |-> JsArray(<<JsUndefined>>)]),
   JsObject([score |-> JsUndefined,
             detail |-> JsObject([note |-> JsUndefined, seen |-> JsDate(1),
                                  words |-> JsArray(<<>>)])])}

JournalObjects ==
  {JsObject([userId |-> JsString("u1"), content |-> JsString(""),
             timestamp |-> JsDate(t), prompt |-> prompt, updatedAt |-> updatedAt,
             sentimentScore |-> score, sentimentAnalysis |-> analysis]) :
     t \in Times, prompt \in {JsUndefined, JsString("What went well?")},
     updatedAt \in {JsUndefined, JsDate(MaxTime)},
     score \in {JsUndefined, JsNumber(0, 1)}, analysis \in AnalysisObjects}

UpdateObjects ==
  {JsObject([title |-> title, sentimentLabel |-> label,
             sentimentAnalysis |-> analysis, updatedAt |-> JsDate(t)]) :
     title \in {JsUndefined, JsString("Day")},
     label \in {JsUndefined, JsString("Neutral")},
     analysis \in AnalysisObjects, t \in Times}

MessageObjects ==
  {JsObject([id |-> JsString("m1"), role |-> JsString("user"),
             content |-> JsString("hi"), timestamp |-> JsDate(t),
             exerciseType |-> exerciseType]) :
     t \in Times, exerciseType \in {JsUndefined, JsString("CBT")}}

TranscriptObjects ==
  {JsArray(<<>>)} \cup {JsArray(<<m>>) : m \in MessageObjects}
  \cup {JsArray(<<m, n>>) : m \in MessageObjects, n \in MessageObjects}

SessionObjects ==
  {JsObject([userId |-> JsString("u1"), messages |-> transcript,
             startedAt |-> JsDate(1), lastMessageAt |-> JsDate(MaxTime)]) :
     transcript \in TranscriptObjects}

MoodObjects ==
  {JsObject([userId |-> JsString("u1"), mood |-> JsNumber(m, 1),
             emotions |-> JsArray(<<>>), timestamp |-> JsDate(1),
             note |-> note, sentimentScore |-> score]) :
     m \in {1, 5}, note \in {JsUndefined, JsString("")},
     score \in {JsUndefined, JsNumber(0, 1)}}

\* the profile of the sign-up form; an option left open is undefined
ProfileObjects ==
  {JsObject([age |-> JsNumber(30, 1), gender |-> gender,
             medicalHistory |-> JsArray(<<>>), occupation |-> occupation,
             completedAt |-> JsDate(t)]) :
     gender \in {JsUndefined, JsString("")},
     occupation \in {JsUndefined, JsString("nurse")}, t \in Times}

\* the argument of the outer removeUndefined of saveUserProfile
ProfilePayloadInput(profile) ==
  JsObject([profile.fields EXCEPT !.completedAt = FromDate(@)])

AddMoodDoc ==
  \E entry \in MoodObjects :
    HandOver("addDoc", EntryPayloadInput(entry),
             removeUndefined(EntryPayloadInput(entry)))

SetProfileDoc ==
  \E profile \in ProfileObjects :
    HandOver("setDoc", ProfilePayloadInput(profile),
             removeUndefined(ProfilePayloadInput(profile)))

AddJournalDoc ==
  \E entry \in JournalObjects :
    HandOver("addDoc", EntryPayloadInput(entry),
             removeUndefined(EntryPayloadInput(entry)))

UpdateJournalDoc ==
  \E updates \in UpdateObjects :
    HandOver("updateDoc", updates, removeUndefined(updates))

AddChatDoc ==
  \E session \in SessionObjects :
    HandOver("addDoc", SessionPayloadInput(session),
             removeUndefined(SessionPayloadInput(session)))

UpdateChatDoc ==
  \E transcript \in TranscriptObjects :
    HandOver("updateDoc", MessagesPayload(transcript), MessagesPayload(transcript))

\* saveUserProfile and getUserProfile called as the adapter exports them
SaveProfile ==
  \E userId \in {"u1"}, outcome \in Answered :
    /\ saveUserProfile(userId, [goal |-> "sleep", completedAt |-> now], outcome)
    /\ ret' = Returned("saveUserProfile", ProfilePath(outcome), NoId, <<>>,
                       userId, 0, NoPatterns)
    /\ UNCHANGED <<user, hasCompletedProfile, screenVars, awaiting, oracleVars,
                   demoMode, now, nextDocId, storeVars>>

GetProfile ==
  \E userId \in {"u1"}, outcome \in Answered :
    /\ ret' = Returned("getUserProfile", ProfilePath(outcome), NoId,
                       getUserProfile(userId, outcome), userId, 0, NoPatterns)
    /\ UNCHANGED <<sessionVars, screenVars, awaiting, oracleVars, demoMode, now,
                   nextDocId, storeVars, pending>>

\* the records the stores hold in the check of the adapter as a whole
MaxKept == 2

\* every operation of the adapter on the record stores and the profiles; the
\* remote store answers the mood calls or fails them, and fails the journal
\* and chat calls, which then act on the local collections
NextAdapter ==
  \/ (RecordCount < MaxKept /\ SaveMood(Answered))
  \/ GetMood(Answered) \/ GetPatterns(Answered)
  \/ (RecordCount < MaxKept /\ SaveJournal({"error"}))
  \/ GetJournal({"error"})
  \/ UpdateJournal({"error"}) \/ DeleteJournal({"error"})
  \/ (RecordCount < MaxKept /\ SaveChat({"error"}))
  \/ UpdateChat({"error"}) \/ GetChat({"error"})
  \/ SaveProfile \/ GetProfile
SpecAdapter == InitStore /\ [][NextAdapter]_vars

\* loadEntries of the mood screen: getMoodEntries(userId, 7) and
\* getMoodPatterns(userId, 7) are called together, each with its own remote
\* read, and the screen keeps what the two returned
loadEntries(userId, entriesOutcome, patternsOutcome) ==
  LET entriesData == MoodEntriesRead(userId, PatternDays, entriesOutcome)
      patternsData ==
        MoodPatterns(MoodEntriesRead(userId, PatternDays, patternsOutcome).rows)
  IN ret' = Returned("loadEntries", entriesData.path, NoId, entriesData.rows,
                     userId, PatternDays, patternsData)

LoadEntries ==
  \E userId \in ScreenUsers, entriesOutcome \in Answered, patternsOutcome \in Answered :
    /\ loadEntries(userId, entriesOutcome, patternsOutcome)
    /\ UNCHANGED <<sessionVars, screenVars, awaiting, oracleVars, demoMode, now,
                   nextDocId, storeVars, pending>>

\* the mood screen saving and loading
NextMoodLoad == HandleSaveMood \/ LoadEntries
SpecMoodLoad == InitStore /\ [][NextMoodLoad]_vars

(***************************************************************************)
(* The other operations of the user context.                               *)
(***************************************************************************)
\* register: the account is created, the user is built with the profile the
\* store has for it, and both states are set
register(firebaseUser, outcome) ==
  LET profile == getUserProfile(firebaseUser, outcome)
  IN /\ user' = <<[id |-> firebaseUser, name |-> "User", email |-> "",
                   profile |-> profile]>>
     /\ hasCompletedProfile' = (profile # <<>>)

\* updateUser: the updates are spread over the user, when there is one
updateUser(updates) ==
  /\ user' = IF user # <<>> THEN <<Merge(user[1], updates)>> ELSE user
  /\ UNCHANGED hasCompletedProfile

\* Partial<User>: any of the fields, the optional profile among them
UserUpdates ==
  {[name |-> "Bea"], [email |-> "bea@example.org"],
   [profile |-> <<[goal |-> "sleep", completedAt |-> 1]>>],
   [profile |-> <<>>]}

Register ==
  \E firebaseUser \in Users, outcome \in Answered :
    /\ register(firebaseUser, outcome)
    /\ UNCHANGED <<profileVars, screenVars, awaiting, oracleVars, demoMode, now,
                   nextDocId, storeVars, pending, ret>>

UpdateUser ==
  \E updates \in UserUpdates :
    /\ updateUser(updates)
    /\ UNCHANGED <<profileVars, screenVars, awaiting, oracleVars, demoMode, now,
                   nextDocId, storeVars, pending, ret>>

\* the user context and what changes it
NextUserContext == AuthStateChanged \/ Register \/ UpdateUser \/ CompleteProfile
SpecUserContext == InitStore /\ [][NextUserContext]_vars

(***************************************************************************)
(* The auth listener with its profile fetch in flight.  The callback runs  *)
(* to its await when the auth state is delivered, and from the await on    *)
(* when getUserProfile has returned; other callbacks run in between.       *)
(***************************************************************************)
\* the callbacks that may wait at one time
MaxCallbacks == 2

\* the callback from its await on: the user built from the fetched profile and
\* the flag are set, then isLoading is reset; isMounted is not read again
authCallbackResumed(firebaseUser, outcome) ==
  /\ onAuthStateChanged(<<firebaseUser>>, outcome)
  /\ isLoading' = FALSE

\* the auth state changes and the listener is called: nothing when unmounted;
\* with a user the callback waits for buildUserFromFirebase; without one it
\* clears the user and the flag and resets isLoading
DeliverAuthState ==
  \E firebaseUser \in {<<>>} \cup {<<u>> : u \in Users} :
    /\ isMounted
    /\ firebaseUser # authUser
    /\ authUser' = firebaseUser
    /\ IF firebaseUser # <<>>
       THEN /\ Len(authCallbacks) < MaxCallbacks
            /\ authCallbacks' = Append(authCallbacks, firebaseUser[1])
            /\ UNCHANGED <<user, hasCompletedProfile, isLoading, location>>
       ELSE /\ onAuthStateChanged(<<>>, "ok")
            /\ isLoading' = FALSE
            /\ location' = Settle(location, user', FALSE)
            /\ UNCHANGED authCallbacks
    /\ UNCHANGED <<oracleVars, profileVars, demoMode, now, nextDocId, storeVars,
                   pending, ret, chatbotMessages, selectedExercise, calls, awaiting,
                   chatIsLoading, isMounted>>

\* the profile fetch of a waiting callback returns
ProfileFetched ==
  \E i \in DOMAIN authCallbacks, outcome \in Answered :
    /\ authCallbackResumed(authCallbacks[i], outcome)
    /\ authCallbacks' = [j \in 1..(Len(authCallbacks) - 1) |->
                           IF j < i THEN authCallbacks[j] ELSE authCallbacks[j + 1]]
    /\ location' = Settle(location, user', isLoading')
    /\ UNCHANGED <<oracleVars, profileVars, demoMode, now, nextDocId, storeVars,
                   pending, ret, chatbotMessages, selectedExercise, calls, awaiting,
                   chatIsLoading, isMounted, authUser>>

\* the effect's cleanup: isMounted = false; unsubscribe()
Unmount ==
  /\ isMounted
  /\ isMounted' = FALSE
  /\ UNCHANGED <<sessionVars, oracleVars, demoMode, now, nextDocId, storeVars, pending,
                 ret, isLoading, location, chatbotMessages, selectedExercise, calls,
                 awaiting, chatIsLoading, authCallbacks, authUser>>

\* the auth listener, the profile form and the provider's unmounting
NextAuthRace == DeliverAuthState \/ ProfileFetched \/ CompleteProfile \/ Unmount
SpecAuthRace == InitStore /\ [][NextAuthRace]_vars

(***************************************************************************)
(* A send of the chat screen in two steps: the handler up to its await,    *)
(* whose state updates the renderer applies before the next event, and the *)
(* rest of the handler when the awaited promise settles.                   *)
(***************************************************************************)
ApologyText ==
  <<"I apologize, but I'm having trouble responding right now. Please try again in a moment. Remember, if you're in crisis, please contact the 988 Suicide & Crisis Lifeline.">>

\* mutant of handleSendBegin: the handler does not look at isLoading
handleSendBeginUnguarded(input) ==
  /\ calls' = <<Called("handleSend", input, <<>>)>>
  /\ IF trim(input) = <<>>
     THEN UNCHANGED <<chatbotMessages, chatIsLoading, awaiting>>
     ELSE /\ chatbotMessages' =
               Append(chatbotMessages,
                      ScreenMessage(Len(chatbotMessages) + 1, "user", trim(input)))
          /\ chatIsLoading' = TRUE
          /\ awaiting' =
               <<Awaited(IF selectedExercise = <<"cbt">> THEN "generateCBTExercise"
                         ELSE IF selectedExercise = <<"dbt">> THEN "generateDBTSkill"
                         ELSE "sendChatMessage", trim(input))>>

\* handleSend up to the await: blank input or a send in flight returns at
\* once; otherwise the user message is appended, isLoading is set and the
\* call chosen by selectedExercise is made
handleSendBegin(input) ==
  /\ calls' = <<Called("handleSend", input, <<>>)>>
  /\ IF trim(input) = <<>> \/ chatIsLoading
     THEN UNCHANGED <<chatbotMessages, chatIsLoading, awaiting>>
     ELSE /\ chatbotMessages' =
               Append(chatbotMessages,
                      ScreenMessage(Len(chatbotMessages) + 1, "user", trim(input)))
          /\ chatIsLoading' = TRUE
          /\ awaiting' =
               <<Awaited(IF selectedExercise = <<"cbt">> THEN "generateCBTExercise"
                         ELSE IF selectedExercise = <<"dbt">> THEN "generateDBTSkill"
                         ELSE "sendChatMessage", trim(input))>>

\* the awaited call returns: the assistant message is appended, an exercise
\* that was chosen is cleared, and finally isLoading is reset
handleSendResolved(response) ==
  /\ CASE awaiting[1].op = "generateCBTExercise" ->
            generateCBTExercise(awaiting[1].arg, response)
       [] awaiting[1].op = "generateDBTSkill" ->
            generateDBTSkill(awaiting[1].arg, response)
       [] OTHER -> sendChatMessage(awaiting[1].arg, response)
  /\ selectedExercise' =
       IF awaiting[1].op = "sendChatMessage" THEN selectedExercise ELSE <<>>
  /\ chatbotMessages' =
       Append(chatbotMessages,
              ScreenMessage(Len(chatbotMessages) + 1, "assistant", reply'.result))
  /\ chatIsLoading' = FALSE
  /\ awaiting' = <<>>

\* the awaited call raises: the catch block appends the apology, and finally
\* isLoading is reset
handleSendRaised ==
  /\ chatbotMessages' =
       Append(chatbotMessages,
              ScreenMessage(Len(chatbotMessages) + 1, "assistant", ApologyText))
  /\ chatIsLoading' = FALSE
  /\ awaiting' = <<>>
  /\ UNCHANGED <<selectedExercise, reply>>

BeginSend ==
  \E input \in ChatDrafts :
    /\ Len(chatbotMessages) < MaxTranscript
    /\ handleSendBegin(input)
    /\ UNCHANGED <<sessionVars, oracleVars, demoMode, now, nextDocId, storeVars,
                   pending, ret, isLoading, location, selectedExercise, isMounted,
                   authCallbacks, authUser>>

SendResolves ==
  \E response \in ScreenResponses :
    /\ chatIsLoading
    /\ handleSendResolved(response)
    /\ UNCHANGED <<sessionVars, GEMINI_API_KEY, demoMode, now, nextDocId, storeVars,
                   pending, ret, isLoading, location, calls, isMounted,
                   authCallbacks, authUser>>

SendRaises ==
  /\ chatIsLoading
  /\ handleSendRaised
  /\ UNCHANGED <<sessionVars, GEMINI_API_KEY, demoMode, now, nextDocId, storeVars,
                 pending, ret, isLoading, location, calls, isMounted,
                 authCallbacks, authUser>>

\* the chat screen with its sends in flight
NextChatFlow == BeginSend \/ SendResolves \/ SendRaises \/ HandleQuickAction \/ Tick
SpecChatFlow == Init /\ [][NextChatFlow]_vars

\* the payloads the remote writes are handed
NextPayload ==
  \/ AddMoodDoc \/ AddJournalDoc \/ UpdateJournalDoc \/ AddChatDoc
  \/ UpdateChatDoc \/ SetProfileDoc \/ Tick
SpecPayload == InitRemote /\ [][NextPayload]_vars

(***************************************************************************)
(* Properties of the record store.                                         *)
(***************************************************************************)
IsSave(op) == op \in {"saveMoodEntry", "saveJournalEntry", "saveChatSession"}

LocalCollection(op) ==
  IF op \in {"saveMoodEntry", "getMoodEntries", "getMoodPatterns"}
  THEN localMoodEntries
  ELSE IF op \in {"saveChatSession", "getChatSessions", "updateChatSession"}
  THEN localChatSessions
  ELSE localJournalEntries

RemoteCollection(op) ==
  IF op \in {"saveMoodEntry", "getMoodEntries", "getMoodPatterns"}
  THEN remoteMoodEntries
  ELSE IF op \in {"saveChatSession", "getChatSessions", "updateChatSession"}
  THEN remoteChatSessions
  ELSE remoteJournalEntries

\* what the local path answers to a read of everything a user owns
LocalReadAll(op, userId) ==
  IF op = "saveChatSession"
  THEN LocalChatQuery(localChatSessions, userId)
  ELSE LocalQuery(LocalCollection(op), userId, Len(LocalCollection(op)))

Holds(coll, id, userId) ==
  \E i \in DOMAIN coll : coll[i].id = id /\ coll[i].userId = userId

\* C1: a save of a mood entry, a journal entry or a chat session never
\* raises and returns a non-empty id, in demo mode and after every remote
\* outcome; when the remote write threw or timed out the record with the
\* returned id is in the local collection and the local read for its user
\* returns it; the record is in at least one store.
C1_SaveNeverRaises ==
  IsSave(ret.op) =>
    /\ ~ret.raised
    /\ ret.id # NoId
    /\ Len(ret.id) > 0
    /\ ret.path = "fallback" =>
         /\ Holds(LocalCollection(ret.op), ret.id, ret.userId)
         /\ Holds(LocalReadAll(ret.op, ret.userId), ret.id, ret.userId)
    /\ ret.path = "remote" => Holds(RemoteCollection(ret.op), ret.id, ret.userId)
    /\ \/ Holds(LocalCollection(ret.op), ret.id, ret.userId)
       \/ Holds(RemoteCollection(ret.op), ret.id, ret.userId)

\* C1 witness: a chat session saved locally after its remote write timed
\* out, the write still in flight
C1_Witness ==
  /\ ret.op = "saveChatSession"
  /\ ret.path = "fallback"
  /\ pending # <<>>
  /\ Head(pending).call = "addDoc"
  /\ Holds(localChatSessions, ret.id, ret.userId)

\* rows are the min(n, count) newest records of userId in coll, newest first
NewestOf(rows, coll, userId, n) ==
  LET mine == SelectSeq(coll, LAMBDA e : e.userId = userId)
      left == BagOfSeq(mine) (-) BagOfSeq(rows)
  IN /\ Len(rows) = Min(n, Len(mine))
     /\ \A i \in DOMAIN rows : rows[i].userId = userId
     /\ \A i, j \in DOMAIN rows : i < j => rows[i].timestamp >= rows[j].timestamp
     /\ BagOfSeq(rows) \sqsubseteq BagOfSeq(mine)
     /\ \A x \in BagToSet(left) : \A i \in DOMAIN rows : x.timestamp <= rows[i].timestamp

\* C2: in demo mode getMoodEntries(u, n) and getJournalEntries(u, n) return
\* exactly the min(n, count) records of u with the greatest timestamps, in
\* non-increasing timestamp order, each owned by u.
C2_DemoReadNewestFirst ==
  (ret.op \in {"getMoodEntries", "getJournalEntries"} /\ ret.path = "local") =>
    /\ ~ret.raised
    /\ NewestOf(ret.rows, LocalCollection(ret.op), ret.userId, ret.limitCount)

\* C2 witness: a user with two entries logged oldest first and another
\* user's entry between them reads one entry and gets the newest
C2_Witness ==
  /\ ret.op = "getMoodEntries"
  /\ ret.path = "local"
  /\ ret.limitCount = 1
  /\ Len(localMoodEntries) = 3
  /\ localMoodEntries[1].userId = ret.userId
  /\ localMoodEntries[2].userId # ret.userId
  /\ localMoodEntries[3].userId = ret.userId
  /\ localMoodEntries[1].timestamp < localMoodEntries[3].timestamp
  /\ Len(ret.rows) = 1
  /\ ret.rows[1] = localMoodEntries[3]

Others(coll, id) == SelectSeq(coll, LAMBDA e : e.id # id)

Absent(id) ==
  /\ ~DocExists(localJournalEntries, id)
  /\ ~DocExists(remoteJournalEntries, id)

\* C4: updateJournalEntry and deleteJournalEntry do not raise; they leave
\* every record with another id as it was and where it was; called with an
\* id that is in neither store they leave both stores as they were; and a
\* deleteJournalEntry that repeats the previous call changes nothing.
C4_Step ==
  ret'.op \in {"updateJournalEntry", "deleteJournalEntry"} =>
    /\ ~ret'.raised
    /\ Others(localJournalEntries', ret'.id) = Others(localJournalEntries, ret'.id)
    /\ Others(remoteJournalEntries', ret'.id) = Others(remoteJournalEntries, ret'.id)
    /\ Absent(ret'.id) =>
         UNCHANGED <<localJournalEntries, remoteJournalEntries>>
    /\ (ret'.op = "deleteJournalEntry" /\ ret' = ret) =>
         UNCHANGED <<localJournalEntries, remoteJournalEntries>>

C4_UnknownIdIsNoOp == [][C4_Step]_vars

\* C4 witness: a delete of an id that was never created, with two entries
\* stored
C4_Witness ==
  /\ ret.op = "deleteJournalEntry"
  /\ ret.id = <<"journal", 0>>
  /\ Len(localJournalEntries) + Len(remoteJournalEntries) = 2

\* the store a read was served from
ServingJournal(path) ==
  IF path = "remote" THEN remoteJournalEntries ELSE localJournalEntries

\* C5: within one storage path a completed save is visible to every later
\* read of the same user whose limit is not smaller than the number of the
\* user's records: the save stores the record under the id it returns, a
\* stored record stays until a delete names its id, and such a read returns
\* every record of the user that the path holds.
C5_SaveStep ==
  /\ (ret'.op = "saveJournalEntry" /\ localJournalEntries' # localJournalEntries) =>
       /\ ret'.path \in {"local", "fallback"}
       /\ Holds(localJournalEntries', ret'.id, ret'.userId)
  /\ (ret'.op = "saveJournalEntry" /\ remoteJournalEntries' # remoteJournalEntries) =>
       /\ ret'.path = "remote"
       /\ Holds(remoteJournalEntries', ret'.id, ret'.userId)

C5_KeepStep ==
  /\ \A i \in DOMAIN localJournalEntries :
       \/ \E j \in DOMAIN localJournalEntries' :
            localJournalEntries'[j] = localJournalEntries[i]
       \/ /\ ret'.op = "deleteJournalEntry"
          /\ ret'.id = localJournalEntries[i].id
  /\ \A i \in DOMAIN remoteJournalEntries :
       \/ \E j \in DOMAIN remoteJournalEntries' :
            remoteJournalEntries'[j] = remoteJournalEntries[i]
       \/ /\ ret'.op = "deleteJournalEntry"
          /\ ret'.id = remoteJournalEntries[i].id

C5_ReadSeesAll ==
  (/\ ret.op = "getJournalEntries"
   /\ ret.limitCount >= CountOf(ServingJournal(ret.path), ret.userId)) =>
    \A i \in DOMAIN ServingJournal(ret.path) :
      ServingJournal(ret.path)[i].userId = ret.userId =>
        \E j \in DOMAIN ret.rows :
          /\ ret.rows[j].id = ServingJournal(ret.path)[i].id
          /\ ret.rows[j].userId = ret.userId
          /\ ret.rows[j].content = ServingJournal(ret.path)[i].content

C5_SaveVisibleOnSamePath ==
  [](C5_ReadSeesAll) /\ [][C5_SaveStep /\ C5_KeepStep]_vars

\* C5 witness: a remote read that returns two saved entries of its user
C5_Witness ==
  /\ ret.op = "getJournalEntries"
  /\ ret.path = "remote"
  /\ Len(ret.rows) = 2
  /\ CountOf(remoteJournalEntries, ret.userId) = 2
  /\ Len(localJournalEntries) = 1

\* the store a mood read was served from
ServingMood(path) ==
  IF path = "remote" THEN remoteMoodEntries ELSE localMoodEntries

\* C9: getMoodPatterns does not raise; for a user with no mood entries it
\* returns averageMood 0, moodTrend 'stable', no commonEmotions and
\* entriesCount 0; entriesCount is the number of entries read and is never
\* more than the requested window size.
C9_PatternsOfEmptyWindow ==
  ret.op = "getMoodPatterns" =>
    /\ ~ret.raised
    /\ ret.patterns.entriesCount = Len(ret.rows)
    /\ ret.patterns.entriesCount <= ret.limitCount
    /\ CountOf(ServingMood(ret.path), ret.userId) = 0 =>
         /\ ret.patterns.averageMood.num = 0
         /\ ret.patterns.averageMood.den # 0
         /\ ret.patterns.moodTrend = "stable"
         /\ ret.patterns.commonEmotions = <<>>
         /\ ret.patterns.entriesCount = 0

\* C9 witness: patterns asked for a user with no entries while another user
\* has some
C9_Witness ==
  /\ ret.op = "getMoodPatterns"
  /\ ret.limitCount > 0
  /\ CountOf(ServingMood(ret.path), ret.userId) = 0
  /\ Len(ServingMood(ret.path)) > 0
  /\ ret.patterns.entriesCount = 0

\* rows are the min(n, count) chat sessions of userId in coll with the
\* latest lastMessageAt, latest first
NewestChatsOf(rows, coll, userId, n) ==
  LET mine == SelectSeq(coll, LAMBDA e : e.userId = userId)
      left == BagOfSeq(mine) (-) BagOfSeq(rows)
  IN /\ Len(rows) = Min(n, Len(mine))
     /\ \A i \in DOMAIN rows : rows[i].userId = userId
     /\ \A i, j \in DOMAIN rows :
          i < j => rows[i].lastMessageAt >= rows[j].lastMessageAt
     /\ BagOfSeq(rows) \sqsubseteq BagOfSeq(mine)
     /\ \A x \in BagToSet(left) :
          \A i \in DOMAIN rows : x.lastMessageAt <= rows[i].lastMessageAt

\* C3: a read of mood entries, journal entries or chat sessions whose remote
\* query throws or times out does not raise and returns the local query
\* with the userId filter, the newest-first order and the result-count
\* limit of the remote query (an empty sequence when nothing matches).
C3_FallbackReadSameQuery ==
  ret.path = "fallback" =>
    /\ ret.op \in {"getMoodEntries", "getJournalEntries"} =>
         /\ ~ret.raised
         /\ NewestOf(ret.rows, LocalCollection(ret.op), ret.userId, ret.limitCount)
    /\ ret.op = "getChatSessions" =>
         /\ ~ret.raised
         /\ NewestChatsOf(ret.rows, localChatSessions, ret.userId, ChatQueryLimit)

(***************************************************************************)
(* Properties of the trend analysis.                                       *)
(***************************************************************************)
MoodsOf(rows) == [i \in DOMAIN rows |-> rows[i].mood]

RECURSIVE Total(_, _, _)
\* m[lo] + ... + m[hi]
Total(m, lo, hi) == IF lo > hi THEN 0 ELSE m[hi] + Total(m, lo, hi - 1)

\* the trend of a non-empty newest-first window of moods, in integers: the
\* means are rNum/rDen and oNum/oDen
TrendOf(m) ==
  LET n == Len(m)
      mid == n \div 2
      rNum == IF mid = 0 THEN Total(m, 1, n) ELSE Total(m, 1, mid)
      rDen == IF mid = 0 THEN n ELSE mid
      oNum == IF mid = n THEN Total(m, 1, n) ELSE Total(m, mid + 1, n)
      oDen == IF mid = n THEN n ELSE n - mid
      delta == rNum * oDen - oNum * rDen
  IN IF 10 * delta > 3 * rDen * oDen THEN "improving"
     ELSE IF 10 * (0 - delta) > 3 * rDen * oDen THEN "declining"
     ELSE "stable"

\* the moods the user logged, oldest first
LoggedMoods(userId) ==
  MoodsOf(SelectSeq(localMoodEntries, LAMBDA e : e.userId = userId))

\* C8: for a non-empty newest-first window of moods in 1..5 the trend
\* getMoodPatterns returns compares the mean of the first floor(length/2)
\* entries with the mean of the rest (an empty half counting as the overall
\* mean) against 0.3: [5,5,1,1] is improving, [1,1,5,5] declining, [3,3,3,3]
\* stable, and moods logged as [2,2,2,5,5,5,5] are improving with
\* averageMood 26/7.
C8_TrendClassification ==
  (ret.op = "getMoodPatterns" /\ ret.rows # <<>>) =>
    LET m == MoodsOf(ret.rows)
        p == ret.patterns
    IN /\ \A i \in DOMAIN m : m[i] \in Moods
       /\ p.moodTrend = TrendOf(m)
       /\ m = <<5, 5, 1, 1>> => p.moodTrend = "improving"
       /\ m = <<1, 1, 5, 5>> => p.moodTrend = "declining"
       /\ m = <<3, 3, 3, 3>> => p.moodTrend = "stable"
       /\ LoggedMoods(ret.userId) = <<2, 2, 2, 5, 5, 5, 5>> =>
            /\ m = <<5, 5, 5, 5, 2, 2, 2>>
            /\ p.moodTrend = "improving"
            /\ p.averageMood = Quot(26, 7)

C8_Witness ==
  /\ ret.op = "getMoodPatterns"
  /\ ret.userId = "u1"
  /\ LoggedMoods("u1") = <<2, 2, 2, 5, 5, 5, 5>>
  /\ ret.limitCount = PatternDays
  /\ ret.patterns.moodTrend = "improving"
  /\ ret.patterns.entriesCount = 7

\* every place an emotion tag stands in the window: <<entry, position>>
TagPlaces(rows) ==
  UNION {{<<i, j>> : j \in DOMAIN rows[i].emotions} : i \in DOMAIN rows}

TagAt(rows, place) == rows[place[1]].emotions[place[2]]

Occurrences(rows, tag) ==
  Cardinality({place \in TagPlaces(rows) : TagAt(rows, place) = tag})

\* tag t is met before tag u when the window is read entry by entry
MetBefore(rows, t, u) ==
  \E p \in TagPlaces(rows) :
    /\ TagAt(rows, p) = t
    /\ \A q \in TagPlaces(rows) :
         TagAt(rows, q) = u => (p[1] < q[1] \/ (p[1] = q[1] /\ p[2] < q[2]))

\* C10: commonEmotions holds at most 5 tags, each occurring in the window,
\* in non-increasing order of occurrence count, tags of equal count in the
\* order they are first met; no tag left out occurs more often than a tag
\* kept; emotion lists [[a,b],[a],[a,c],[b]] give a, b, c.
C10_CommonEmotionsRanking ==
  (ret.op = "getMoodPatterns" /\ ret.rows # <<>>) =>
    LET rows == ret.rows
        tags == ret.patterns.commonEmotions
        all == {TagAt(rows, place) : place \in TagPlaces(rows)}
    IN /\ Len(tags) <= 5
       /\ Len(tags) = Min(5, Cardinality(all))
       /\ \A i \in DOMAIN tags : tags[i] \in all
       /\ \A i, j \in DOMAIN tags :
            i < j =>
              \/ Occurrences(rows, tags[i]) > Occurrences(rows, tags[j])
              \/ /\ Occurrences(rows, tags[i]) = Occurrences(rows, tags[j])
                 /\ tags[i] # tags[j]
                 /\ MetBefore(rows, tags[i], tags[j])
       /\ \A t \in all \ Range(tags) :
            \A i \in DOMAIN tags : Occurrences(rows, t) <= Occurrences(rows, tags[i])
       /\ [i \in DOMAIN rows |-> rows[i].emotions]
            = <<(<<"Happy", "Calm">>), (<<"Happy">>), (<<"Happy", "Sad">>), (<<"Calm">>)>>
            => tags = <<"Happy", "Calm", "Sad">>

\* more than five tags in the window, two of them tied at the cut
C10_Witness ==
  /\ ret.op = "getMoodPatterns"
  /\ Len(ret.patterns.commonEmotions) = 5
  /\ Cardinality({TagAt(ret.rows, place) : place \in TagPlaces(ret.rows)}) > 5
  /\ \E t \in {TagAt(ret.rows, place) : place \in TagPlaces(ret.rows)}
            \ Range(ret.patterns.commonEmotions) :
       Occurrences(ret.rows, t) = Occurrences(ret.rows, ret.patterns.commonEmotions[5])
  /\ \E i \in 1..4 :
       Occurrences(ret.rows, ret.patterns.commonEmotions[i])
         > Occurrences(ret.rows, ret.patterns.commonEmotions[i + 1])

(***************************************************************************)
(* Properties of the Gemini client.                                        *)
(***************************************************************************)
\* the call did not get a usable text from the oracle
OracleFailed(response) ==
  \/ GEMINI_API_KEY = ""
  \/ response.kind \in {"fetchError", "httpError", "badBody", "noText"}
  \/ \A i \in DOMAIN response.text : response.text[i] \in WhiteSpace

KeywordGroups ==
  <<AnxietyWords, SadnessWords, StressWords, AngerWords, SleepWords, GreetingWords>>

GroupTemplates ==
  <<AnxietyTemplate, SadnessTemplate, StressTemplate, AngerTemplate,
    SleepTemplate, GreetingTemplate>>

\* the groups with a keyword somewhere in the lowercased message
GroupsHit(message) ==
  {g \in DOMAIN KeywordGroups :
     \E w \in KeywordGroups[g] : includes(toLowerCase(message), w)}

\* C7: sendChatMessage never raises and returns a non-empty text; when the
\* oracle fails (no key, fetch error, non-success status, empty text) the
\* text is the template of the first keyword group, in the order anxiety,
\* sadness, stress, anger, sleep, greeting, with a keyword in the lowercased
\* message, the templates being distinct, and the generic template when no
\* group has one.
C7_ChatFallbackByKeyword ==
  reply.op = "sendChatMessage" =>
    /\ ~reply.raised
    /\ reply.result # <<>>
    /\ \A g, h \in DOMAIN GroupTemplates :
         g # h => GroupTemplates[g] # GroupTemplates[h]
    /\ \A g \in DOMAIN GroupTemplates :
         GroupTemplates[g][1] # GenericTemplate(reply.input)[1]
    /\ OracleFailed(reply.response) =>
         LET hit == GroupsHit(reply.input)
         IN IF hit = {}
            THEN reply.result = GenericTemplate(reply.input)
            ELSE reply.result =
                   GroupTemplates[CHOOSE g \in hit : \A h \in hit : g <= h]

\* a non-success status, and a message in capitals with a sadness keyword
\* and a greeting keyword: the sadness template answers
C7_Witness ==
  /\ reply.op = "sendChatMessage"
  /\ GEMINI_API_KEY # ""
  /\ reply.response.kind = "httpError"
  /\ reply.input # toLowerCase(reply.input)
  /\ GroupsHit(reply.input) = {2, 6}
  /\ reply.result = SadnessTemplate

SentimentLabels ==
  {"Very Negative", "Negative", "Neutral", "Positive", "Very Positive"}

\* the band of the score num/den, den > 0
SentimentBand(num, den) ==
  IF 10 * num > 5 * den THEN "Very Positive"
  ELSE IF 10 * num > 2 * den THEN "Positive"
  ELSE IF 10 * num < (0 - 5) * den THEN "Very Negative"
  ELSE IF 10 * num < (0 - 2) * den THEN "Negative"
  ELSE "Neutral"

\* a sentiment result: a score in [-1, 1], its band as the label, a list of
\* insights
IsSentimentResult(v) ==
  /\ v.type = "object"
  /\ {"score", "label", "insights"} \subseteq DOMAIN v.fields
  /\ v.fields.score.type = "number"
  /\ v.fields.score.den > 0
  /\ 0 - v.fields.score.den <= v.fields.score.num
  /\ v.fields.score.num <= v.fields.score.den
  /\ v.fields.label.type = "string"
  /\ v.fields.label.str \in SentimentLabels
  /\ v.fields.label.str = SentimentBand(v.fields.score.num, v.fields.score.den)
  /\ v.fields.insights.type = "array"

\* C6: whatever the oracle does, analyzeSentiment does not raise and returns
\* a score in [-1, 1], the label that is the band of the score, and a list
\* of insights; a response without that structure gives the result of the
\* local scorer.
C6_SentimentAlwaysWellFormed ==
  reply.op = "analyzeSentiment" =>
    /\ ~reply.raised
    /\ IsSentimentResult(reply.result)
    /\ reply.result # getMockSentimentAnalysis(reply.input) =>
         /\ GEMINI_API_KEY # ""
         /\ reply.response.kind = "text"

\* the number of words of a list that stand somewhere in the lowercased text
WordsFound(text, words) ==
  Cardinality({k \in DOMAIN words : includes(toLowerCase(text), words[k])})

\* C11: for all counts of positive and negative words the local scorer
\* returns clamp((pos - neg) / max(pos + neg, 1) * 0.8, -1, 1), the label of
\* the band of that score (> 0.5, > 0.2, < -0.5, < -0.2, else Neutral) and
\* exactly 3 fixed insights; a text with a positive and no negative word is
\* labelled Positive or Very Positive.
C11_LocalScorer ==
  (reply.op = "analyzeSentiment" /\ OracleFailed(reply.response)) =>
    LET pos == WordsFound(reply.input, PositiveWordList)
        neg == WordsFound(reply.input, NegativeWordList)
        \* (pos - neg) / max(pos + neg, 1) * 0.8 is num / den
        num == 8 * (pos - neg)
        den == 10 * (IF pos + neg >= 1 THEN pos + neg ELSE 1)
        r == reply.result
    IN /\ r.type = "object"
       /\ DOMAIN r.fields = {"score", "label", "insights"}
       /\ r.fields.score.den > 0
       /\ IF num > den THEN r.fields.score.num = r.fields.score.den
          ELSE IF num < 0 - den THEN r.fields.score.num = 0 - r.fields.score.den
          ELSE r.fields.score.num * den = num * r.fields.score.den
       /\ r.fields.label.str = SentimentBand(r.fields.score.num, r.fields.score.den)
       /\ r.fields.insights = JsArray(MockInsights)
       /\ Len(r.fields.insights.items) = 3
       /\ (pos >= 1 /\ neg = 0) => r.fields.label.str \in {"Positive", "Very Positive"}
       /\ SentimentBand(6, 10) = "Very Positive"
       /\ SentimentBand(0 - 3, 10) = "Negative"

\* five positive and three negative words: the score is exactly 0.2, which
\* is not above the threshold
C11_Witness ==
  /\ reply.op = "analyzeSentiment"
  /\ OracleFailed(reply.response)
  /\ WordsFound(reply.input, PositiveWordList) = 5
  /\ WordsFound(reply.input, NegativeWordList) = 3
  /\ reply.result.fields.label.str = "Neutral"

\* two calls in a row, whatever the store did in between, with the same text
C12_SameTextStep ==
  (reply.op = "analyzeSentiment" /\ reply'.op = "analyzeSentiment"
   /\ reply'.input = reply.input) =>
    reply'.result = reply.result

\* the result is a function of the text alone
C12_ResultOfTextOnly ==
  (reply.op = "analyzeSentiment" /\ GEMINI_API_KEY = "") =>
    reply.result = getMockSentimentAnalysis(reply.input)

\* C12: without a Gemini API key two calls of analyzeSentiment with the same
\* text return the same score, label and insights, whatever ran in between:
\* the result depends on the text only.
C12_FallbackDeterminism ==
  [](C12_ResultOfTextOnly) /\ [][C12_SameTextStep]_vars

\* a draft scored again after journal entries were saved and the oracle's
\* answer changed
C12_Witness ==
  /\ reply.op = "analyzeSentiment"
  /\ GEMINI_API_KEY = ""
  /\ reply.response.kind = "text"
  /\ WordsFound(reply.input, NegativeWordList) = 2
  /\ Len(localJournalEntries) + Len(remoteJournalEntries) >= 2
  /\ now > 1

(***************************************************************************)
(* Properties of the screens.                                              *)
(***************************************************************************)
\* the mood entries the store holds: the local collection, the remote
\* collection and the payloads of remote writes still in flight
HeldMoodEntries ==
  Range(localMoodEntries) \cup Range(remoteMoodEntries)
  \cup {pending[i].data : i \in {k \in DOMAIN pending :
                                  pending[k].coll = "moodEntries"
                                  /\ pending[k].call = "addDoc"}}

\* C13: in every reachable state every mood entry the store holds, in the
\* local collection or in a remote write payload, has an integer mood from
\* 1 to 5.
C13_MoodRange ==
  \A entry \in HeldMoodEntries : entry.mood \in Int /\ 1 <= entry.mood /\ entry.mood <= 5

\* both ends of the scale are held, one locally and one remotely
C13_Witness ==
  /\ \E i \in DOMAIN localMoodEntries : localMoodEntries[i].mood = 1
  /\ \E i \in DOMAIN remoteMoodEntries : remoteMoodEntries[i].mood = 5
  /\ pending # <<>>

\* the journal entries of a user in a collection, in the collection's order
JournalOf(coll, userId) == SelectSeq(coll, LAMBDA e : e.userId = userId)

\* the user has an entry with this id
OwnsEntry(userId, id) ==
  \E e \in Range(localJournalEntries) \cup Range(remoteJournalEntries) :
    e.userId = userId /\ e.id = id

\* an update or delete issued for an entry of a user leaves the entries of
\* every other user as they are
C14_OwnerStep ==
  (ret'.op \in {"updateJournalEntry", "deleteJournalEntry"}) =>
    \A owner \in Users :
      OwnsEntry(owner, ret'.id) =>
        \A other \in Users \ {owner} :
          /\ JournalOf(localJournalEntries', other)
               = JournalOf(localJournalEntries, other)
          /\ JournalOf(remoteJournalEntries', other)
               = JournalOf(remoteJournalEntries, other)

\* a read for a user returns records of that user only
C14_OwnReads ==
  ret.op \in {"getMoodEntries", "getJournalEntries", "getChatSessions"} =>
    \A i \in DOMAIN ret.rows : ret.rows[i].userId = ret.userId

\* C14: an updateJournalEntry or deleteJournalEntry issued for one user's
\* entry never changes, removes or re-assigns an entry of another user, and
\* no read for a user returns a record of another user.
C14_OwnerOnly == [](C14_OwnReads) /\ [][C14_OwnerStep]_vars

\* C15: completeProfile raises exactly when no user is signed in, and then
\* saveUserProfile is not called and user, hasCompletedProfile and the
\* stored profiles stay as they are; with a user it does not raise even
\* when the remote write fails or times out, and afterwards
\* hasCompletedProfile is true and user.profile is the saved profile.
C15_Step ==
  (ret' # ret /\ ret'.op = "completeProfile") =>
    /\ ret'.raised <=> (user = <<>>)
    /\ ret'.raised =>
         UNCHANGED <<user, hasCompletedProfile, profileVars, pending>>
    /\ ~ret'.raised =>
         /\ hasCompletedProfile'
         /\ user' # <<>>
         /\ user'[1].id = user[1].id
         /\ user'[1].profile # <<>>
         /\ user'[1].profile[1].completedAt = now
         /\ IF ret'.path = "remote"
            THEN /\ remoteUserProfiles'[user[1].id] # <<>>
                 /\ [remoteUserProfiles'[user[1].id][1] EXCEPT
                       !.completedAt = TimestampToDate(@)] = user'[1].profile[1]
            ELSE localUserProfiles'[user[1].id] = user'[1].profile

C15_CompleteProfile == [][C15_Step]_vars

\* a profile completed although the remote write timed out
C15_Witness ==
  /\ ret.op = "completeProfile"
  /\ ~ret.raised
  /\ ret.path = "fallback"
  /\ \E i \in DOMAIN pending : pending[i].call = "setDoc"
  /\ hasCompletedProfile
  /\ user # <<>>
  /\ user[1].profile = localUserProfiles[user[1].id]

\* C16 and later: properties of the screens' handlers and of the routes.

\* C17: while hasCompletedProfile is false no main route (/home, /profile,
\* /chat, /mood, /journal, /therapists) shows its page: the user is sent to
\* /signup instead.
C17_ProfileGate ==
  ~hasCompletedProfile =>
    ~(location \in MainRoutes /\ Shown = MainPage(location))

\* the chat sessions the store holds, local and remote
HeldChatSessions == Range(localChatSessions) \cup Range(remoteChatSessions)

\* C16: after every completed chat send the transcript with the new user
\* message and the assistant's reply has been persisted through
\* saveChatSession or updateChatSession.
C16_TranscriptPersisted ==
  chatbotMessages # <<>> =>
    /\ \E i \in DOMAIN calls :
         calls[i].fn \in {"saveChatSession", "updateChatSession"}
    /\ \E session \in HeldChatSessions :
         Len(session.messages) = Len(chatbotMessages)

\* the record the last run of handleSave handed to the store
C18_Handed(i) ==
  LET record == calls[i].record[1]
  IN /\ i = 3
     /\ calls[2].fn = "analyzeSentiment"
     /\ calls[2].text = calls[1].text
     /\ reply.op = "analyzeSentiment"
     /\ reply.input = calls[1].text
     /\ record.content = trim(calls[1].text)
     /\ record.content # <<>>
     /\ record.title # <<>>
     /\ record.title = trim(record.title) \/ record.title = FormattedDate(now)
     /\ record.sentimentScore = Property(reply.result, "score")
     /\ record.sentimentLabel = Property(reply.result, "label")

C18_Calls ==
  (calls # <<>> /\ calls[1].fn = "handleSave") =>
    /\ \A i \in DOMAIN calls :
         calls[i].fn \in {"saveJournalEntry", "updateJournalEntry"} => C18_Handed(i)
    /\ trim(calls[1].text) = <<>> => Len(calls) = 1

C18_BlankStep ==
  (calls' # calls /\ calls'[1].fn = "handleSave" /\ trim(calls'[1].text) = <<>>) =>
    UNCHANGED <<reply, storeVars, pending, ret>>

\* C18: in the journal save flow the sentiment call completes before any
\* persistence call; every record handed to saveJournalEntry or
\* updateJournalEntry has non-empty trimmed content, a non-empty title and
\* the score and label analyzeSentiment returned for that content; blank
\* content makes no sentiment call and no persistence call.
C18_SaveFlow == [](C18_Calls) /\ [][C18_BlankStep]_vars

\* an entry saved under the date as its title, with the scorer's verdict
C18_Witness ==
  /\ Len(calls) = 3
  /\ calls[3].fn = "saveJournalEntry"
  /\ calls[3].record[1].title = FormattedDate(now)
  /\ calls[3].record[1].sentimentLabel = JsString("Very Positive")
  /\ \E e \in Range(localJournalEntries) :
       e.content = calls[3].record[1].content

\* the records the local collections hold
LocalRecordCount ==
  Len(localMoodEntries) + Len(localJournalEntries) + Len(localChatSessions)

\* a step in which the remote promise of a timed out call settles
C19_Settles == Len(pending') < Len(pending)

C19_Step ==
  /\ C19_Settles =>
       UNCHANGED <<localMoodEntries, localJournalEntries, localChatSessions,
                   localUserProfiles, ret, user, hasCompletedProfile, screenVars,
                   oracleVars>>
  /\ LocalRecordCount' <= LocalRecordCount + 1

\* C19: after the timeout of a remote call has fired and the operation has
\* fallen back and returned, the late resolution or rejection of the remote
\* promise changes no local collection and not the id already returned, and
\* writes no second fallback record: a save adds at most one local record.
C19_LateSettlementDiscarded == [][C19_Step]_vars

\* a mood entry saved by fallback whose remote write landed afterwards
C19_Witness ==
  /\ ret.op = "saveMoodEntry"
  /\ ret.path = "fallback"
  /\ pending = <<>>
  /\ remoteMoodEntries # <<>>
  /\ \E i \in DOMAIN localMoodEntries : localMoodEntries[i].id = ret.id

\* what a call that fell back hands to its caller and leaves in the local
\* journal, told from the call and the state it was made in alone
FallbackEffect(call) ==
  CASE call.op = "saveJournalEntry" ->
         [id |-> LocalId("journal"), rows |-> <<>>,
          journal |-> Append(localJournalEntries,
                             WithId(call.arg.entry, LocalId("journal")))]
    [] call.op = "deleteJournalEntry" ->
         [id |-> call.arg.id, rows |-> <<>>,
          journal |-> DeleteById(localJournalEntries, call.arg.id)]
    [] call.op = "getJournalEntries" ->
         [id |-> NoId,
          rows |-> LocalQuery(localJournalEntries, call.arg.userId,
                              call.arg.limitCount),
          journal |-> localJournalEntries]

\* a waiting call returns without an answer of the remote store: its
\* promise rejected, or its timer fired (then the write stays in flight)
C20_Step ==
  (awaiting # <<>> /\ awaiting' = <<>> /\ ret'.path = "fallback") =>
    /\ ret'.op = awaiting[1].op
    /\ ~ret'.raised
    /\ ret'.id = FallbackEffect(awaiting[1]).id
    /\ ret'.rows = FallbackEffect(awaiting[1]).rows
    /\ localJournalEntries' = FallbackEffect(awaiting[1]).journal
    /\ UNCHANGED <<localMoodEntries, localChatSessions, localUserProfiles>>

C20_Returns == (awaiting # <<>>) ~> (awaiting = <<>>)

\* C20: every adapter call returns even if the remote store never answers,
\* given that the timer of withTimeout fires; the result and the local
\* collections after a timeout are those after a thrown remote error for
\* the same call.
C20_TimeoutAsError == C20_Returns /\ [][C20_Step]_vars

\* a delete that returned by timeout: the entry is gone from the local
\* journal while the remote delete is still in flight
C20_Witness ==
  /\ ret.op = "deleteJournalEntry"
  /\ ret.path = "fallback"
  /\ awaiting = <<>>
  /\ pending # <<>>
  /\ pending[Len(pending)].call = "deleteDoc"
  /\ ~DocExists(localJournalEntries, ret.id)

RECURSIVE NoUndefined(_)
\* no field of the object, or of an object in a field of it, is undefined
NoUndefined(obj) ==
  \A k \in DOMAIN obj.fields :
    /\ obj.fields[k].type # "undefined"
    /\ obj.fields[k].type = "object" => NoUndefined(obj.fields[k])

RECURSIVE CleanedFrom(_, _)
\* the payload has the defined fields of the input and no others; arrays,
\* dates, timestamps and the other values that are no objects are the
\* input's, objects are cleaned in turn
CleanedFrom(payload, input) ==
  /\ DOMAIN payload.fields =
       {k \in DOMAIN input.fields : input.fields[k].type # "undefined"}
  /\ \A k \in DOMAIN payload.fields :
       IF input.fields[k].type = "object"
       THEN /\ payload.fields[k].type = "object"
            /\ CleanedFrom(payload.fields[k], input.fields[k])
       ELSE payload.fields[k] = input.fields[k]

\* C21: the payload of a remote write has no undefined field, at the top or
\* in a nested plain object, and has every defined field of the object it
\* was cleaned from; arrays, dates and timestamps are handed over as they
\* are; cleaning the payload again changes nothing.
C21_PayloadClean ==
  (calls # <<>> /\ calls[1].fn = "removeUndefined") =>
    LET input == calls[1].record[1]
        payload == calls[2].record[1]
    IN /\ NoUndefined(payload)
       /\ CleanedFrom(payload, input)
       /\ removeUndefined(payload) = payload
       /\ "messages" \in DOMAIN payload.fields =>
            \A i \in DOMAIN payload.fields.messages.items :
              NoUndefined(payload.fields.messages.items[i])

\* a journal entry whose analysis had an undefined field two objects down
\* and an array holding undefined
C21_Witness ==
  /\ calls # <<>>
  /\ calls[1].fn = "removeUndefined"
  /\ "sentimentAnalysis" \in DOMAIN calls[1].record[1].fields
  /\ calls[1].record[1].fields.sentimentAnalysis.type = "object"
  /\ "detail" \in DOMAIN calls[1].record[1].fields.sentimentAnalysis.fields
  /\ calls[1].record[1].fields.sentimentAnalysis.fields.detail.fields.note
       = JsUndefined
  /\ DOMAIN calls[2].record[1].fields.sentimentAnalysis.fields.detail.fields
       = {"seen", "words"}

\* C22: the local mood entries only grow at the end: whatever the adapter
\* does, the entries held before are held after, unchanged and in place.
C22_MoodAppendOnly ==
  [][/\ Len(localMoodEntries') >= Len(localMoodEntries)
     /\ SubSeq(localMoodEntries', 1, Len(localMoodEntries)) = localMoodEntries]_vars

\* a read of the moods, newest first, of a store that holds them oldest first
C22_Witness ==
  /\ ret.op \in {"getMoodEntries", "getMoodPatterns"}
  /\ Len(localMoodEntries) >= 2
  /\ localMoodEntries[1].timestamp < localMoodEntries[2].timestamp
  /\ localMoodEntries[1].userId = localMoodEntries[2].userId

\* the places of the lowercased text at which the word stands
TimesIn(text, word) ==
  Cardinality({k \in 0..(Len(text) - Len(word)) :
                 SubSeq(toLowerCase(text), k + 1, k + Len(word)) = word})

RECURSIVE OccurrencesIn(_, _)
\* the occurrences of the words of a list in the text, a word that stands k
\* times counted k times
OccurrencesIn(text, words) ==
  IF words = <<>> THEN 0
  ELSE TimesIn(text, Head(words)) + OccurrencesIn(text, Tail(words))

\* C23: the local scorer counts occurrences: its score is
\* clamp((pos - neg) / max(pos + neg, 1) * 0.8, -1, 1) for pos and neg the
\* numbers of occurrences of positive and of negative words in the lowercased
\* text, a word that appears k times counted k times.
C23_CountsOccurrences ==
  (reply.op = "analyzeSentiment" /\ OracleFailed(reply.response)) =>
    LET pos == OccurrencesIn(reply.input, PositiveWordList)
        neg == OccurrencesIn(reply.input, NegativeWordList)
        num == 8 * (pos - neg)
        den == 10 * (IF pos + neg >= 1 THEN pos + neg ELSE 1)
        score == reply.result.fields.score
    IN score.num * den = num * score.den

\* a save on the local path takes the clock as the id and adds a record, also
\* when a record with that id is already held
C24_SaveStep ==
  (ret'.op = "saveJournalEntry" /\ ret'.path # "remote" /\ now' = now) =>
    /\ ret'.id = <<"journal", now>>
    /\ Len(localJournalEntries') = Len(localJournalEntries) + 1
    /\ SubSeq(localJournalEntries', 1, Len(localJournalEntries)) = localJournalEntries
    /\ localJournalEntries'[Len(localJournalEntries')].id = ret'.id

\* a delete on the local path removes every record with the id and keeps the
\* others in their order
C24_DeleteStep ==
  (ret'.op = "deleteJournalEntry" /\ ret'.path # "remote" /\ now' = now) =>
    /\ \A i \in DOMAIN localJournalEntries' : localJournalEntries'[i].id # ret'.id
    /\ localJournalEntries' =
         SelectSeq(localJournalEntries, LAMBDA e : e.id # ret'.id)

\* an update on the local path changes the earliest-inserted record with the
\* id, and no other
C24_UpdateStep ==
  (ret'.op = "updateJournalEntry" /\ ret'.path # "remote" /\ now' = now) =>
    /\ Len(localJournalEntries') = Len(localJournalEntries)
    /\ \A i \in DOMAIN localJournalEntries :
         (localJournalEntries'[i] # localJournalEntries[i]) =>
           /\ localJournalEntries[i].id = ret'.id
           /\ \A j \in 1..(i - 1) : localJournalEntries[j].id # ret'.id
    /\ \A i \in DOMAIN localJournalEntries :
         (/\ localJournalEntries[i].id = ret'.id
          /\ \A j \in 1..(i - 1) : localJournalEntries[j].id # ret'.id) =>
           localJournalEntries'[i].content = "edited"

\* C24: a save on the local path assigns the id journal-<clock>, so two such
\* saves at one clock reading get the same id and both records are stored;
\* for a shared id deleteJournalEntry removes every record that carries it
\* and updateJournalEntry changes the earliest-inserted one only.
C24_SharedLocalId == [][C24_SaveStep /\ C24_DeleteStep /\ C24_UpdateStep]_vars

\* two records saved at one clock reading share their id; an update by that
\* id has changed the first and left the second
C24_Witness ==
  /\ ret.op = "updateJournalEntry"
  /\ Len(localJournalEntries) >= 2
  /\ localJournalEntries[1].id = localJournalEntries[2].id
  /\ ret.id = localJournalEntries[1].id
  /\ localJournalEntries[1].content = "edited"
  /\ localJournalEntries[2].content = "draft"

\* the ids of the records a collection holds
IdsOf(coll) == {coll[i].id : i \in DOMAIN coll}

\* a read that the remote store answers returns remote documents and none of
\* the local records; a read on the local path returns local records and none
\* of the remote documents
C25_ReadStep ==
  (ret' # ret /\ ret'.op = "getMoodEntries") =>
    IF ret'.path = "remote"
    THEN \A i \in DOMAIN ret'.rows :
           /\ \E d \in Range(remoteMoodEntries) :
                ret'.rows[i] = [d EXCEPT !.timestamp = TimestampToDate(@)]
           /\ ret'.rows[i].id \notin IdsOf(localMoodEntries)
    ELSE \A i \in DOMAIN ret'.rows :
           /\ ret'.rows[i] \in Range(localMoodEntries)
           /\ ret'.rows[i].id \notin IdsOf(remoteMoodEntries)

\* a collection changes by a write that adds its own record under a new id
\* of the collection's kind, and no step changes both collections
C25_WriteStep ==
  /\ localMoodEntries' # localMoodEntries =>
       /\ remoteMoodEntries' = remoteMoodEntries
       /\ ret'.op = "saveMoodEntry" /\ ret'.path # "remote"
       /\ Len(localMoodEntries') = Len(localMoodEntries) + 1
       /\ SubSeq(localMoodEntries', 1, Len(localMoodEntries)) = localMoodEntries
       /\ localMoodEntries'[Len(localMoodEntries')].id = <<"mood", now>>
  /\ remoteMoodEntries' # remoteMoodEntries =>
       /\ localMoodEntries' = localMoodEntries
       /\ Len(remoteMoodEntries') = Len(remoteMoodEntries) + 1
       /\ SubSeq(remoteMoodEntries', 1, Len(remoteMoodEntries)) = remoteMoodEntries
       /\ remoteMoodEntries'[Len(remoteMoodEntries')].id = DocId(nextDocId)

\* C25: the local and the remote store are not reconciled: no operation
\* copies a record from one to the other, a read answered by the remote store
\* returns no record of the local collection, and a read that falls back to
\* the local collection returns no record written remotely.
C25_NeverReconciled ==
  [][C25_ReadStep /\ C25_WriteStep]_vars
  /\ [](IdsOf(localMoodEntries) \cap IdsOf(remoteMoodEntries) = {})

\* a user has an entry in either store, one saved while the remote write
\* failed and one saved remotely; a read answered remotely returned the
\* second alone
C25_Witness ==
  /\ ret.op = "getMoodEntries"
  /\ ret.path = "remote"
  /\ Len(ret.rows) = 1
  /\ ret.limitCount >= 2
  /\ \E e \in Range(localMoodEntries) : e.userId = ret.userId
  /\ \E d \in Range(remoteMoodEntries) : d.userId = ret.userId
  /\ pending = <<>>

\* the transcript alternates from the user on; a send is in flight, and
\* isLoading is set, exactly while the last message is the user's
C26_Alternates ==
  /\ \A i \in DOMAIN chatbotMessages :
       chatbotMessages[i].role = IF i % 2 = 1 THEN "user" ELSE "assistant"
  /\ chatIsLoading <=> (Len(chatbotMessages) % 2 = 1)
  /\ chatIsLoading <=> (awaiting # <<>>)

\* a run of handleSend appends the user's message, once, when the input is
\* not blank and no send is in flight, and nothing otherwise; a settled call
\* appends one assistant message and resets isLoading
C26_Step ==
  /\ calls' # calls =>
       IF trim(calls'[1].text) = <<>> \/ chatIsLoading
       THEN UNCHANGED <<chatbotMessages, chatIsLoading>>
       ELSE /\ chatbotMessages' =
                 Append(chatbotMessages,
                        ScreenMessage(Len(chatbotMessages) + 1, "user",
                                      trim(calls'[1].text)))
            /\ chatIsLoading'
  /\ chatbotMessages' # chatbotMessages =>
       /\ Len(chatbotMessages') = Len(chatbotMessages) + 1
       /\ SubSeq(chatbotMessages', 1, Len(chatbotMessages)) = chatbotMessages
       /\ chatbotMessages'[Len(chatbotMessages')].role = "user" =>
            /\ ~chatIsLoading
            /\ chatbotMessages'[Len(chatbotMessages')].content # <<>>
       /\ chatbotMessages'[Len(chatbotMessages')].role = "assistant" =>
            chatIsLoading /\ ~chatIsLoading'

\* C26: the chat transcript alternates roles starting with the user: an
\* accepted send appends one user message and then, whether the call returns
\* or raises, one assistant message; no send is accepted while one is in
\* flight or when the input is blank; isLoading is false after every send.
C26_ChatAlternates == [](C26_Alternates) /\ [][C26_Step]_vars

\* a first send ended in the apology; while the second is in flight another
\* text is sent, and the transcript stays as it is
C26_Witness ==
  /\ Len(chatbotMessages) = 3
  /\ chatbotMessages[2].content = ApologyText
  /\ chatIsLoading
  /\ calls # <<>>
  /\ trim(calls[1].text) # <<>>
  /\ trim(calls[1].text) # chatbotMessages[3].content

\* C27: in every state of the user context hasCompletedProfile is true
\* exactly when there is a user and the user has a profile, after any
\* sequence of auth callbacks, register, updateUser and completeProfile.
C27_ProfileFlagMatches ==
  hasCompletedProfile <=> (user # <<>> /\ user[1].profile # <<>>)

\* when no callback waits, the user of the context is the user of the auth
\* state delivered last
C28_ReflectsLatest ==
  (authCallbacks = <<>> /\ ~isLoading) =>
    /\ (user = <<>>) <=> (authUser = <<>>)
    /\ user # <<>> => <<user[1].id>> = authUser
    /\ user = <<>> => ~hasCompletedProfile

\* a fetch that returns late leaves a signed-out context signed out, and
\* nothing is set once the provider has unmounted
C28_LateStep ==
  /\ (Len(authCallbacks') < Len(authCallbacks) /\ authUser = <<>>) =>
       user' = <<>> /\ ~hasCompletedProfile'
  /\ ~isMounted => UNCHANGED <<user, hasCompletedProfile, isLoading>>

\* C28: the user context ends up with the latest auth state: when a sign-out
\* is delivered while the profile fetch of an earlier sign-in waits, then
\* after all waiting callbacks have finished user is null and
\* hasCompletedProfile is false; a late fetch never re-installs a signed-out
\* user and sets no state after the provider has unmounted.
C28_LatestAuthStateWins == [](C28_ReflectsLatest) /\ [][C28_LateStep]_vars

\* C29: after loadEntries the patterns shown count the entries listed:
\* patterns.entriesCount is the length of the entries list, in demo mode and
\* in remote mode, also when a remote read fails or a save comes between the
\* two reads.
C29_CountMatchesList ==
  ret.op = "loadEntries" => ret.patterns.entriesCount = Len(ret.rows)

\* the pages of the main routes
MainPages == {MainPage(pathname) : pathname \in MainRoutes}

\* what the routes render for the user and the loading flag of the state, at
\* every path: a main page only to a user once loading has finished, the
\* spinner at a main route while loading, a redirect to /login from a main
\* route without a user, and a redirect to /home, never the landing or the
\* login page, to a user once loading has finished
C30_Renders ==
  \A pathname \in Paths :
    LET element == AppRoutes(pathname, user, isLoading)
    IN /\ element \in MainPages =>
            /\ ~isLoading /\ user # <<>>
            /\ pathname \in MainRoutes /\ element = MainPage(pathname)
       /\ (isLoading /\ pathname \in MainRoutes) => element = LoadingSpinner
       /\ (~isLoading /\ user = <<>> /\ pathname \in MainRoutes) =>
            element = NavigateTo("/login")
       /\ (~isLoading /\ user # <<>> /\ pathname \in {"/", "/login"}) =>
            element = NavigateTo("/home")
       /\ (~isLoading /\ user # <<>>) =>
            element \notin {Page("Landing"), Page("Login")}

\* what is on the screen after the redirects: never a Navigate; without a
\* user and with loading finished no main route, with a user neither the
\* landing nor the login page
C30_Settled ==
  /\ Shown.kind # "navigate"
  /\ Shown \in MainPages => (~isLoading /\ user # <<>>)
  /\ (~isLoading /\ user = <<>>) => location \notin MainRoutes
  /\ (~isLoading /\ user # <<>>) => location \notin {"/", "/login"}

\* C30: the content of a protected route (/home, /profile, /chat, /mood,
\* /journal, /therapists) is rendered only when auth loading has finished and
\* a user is present: while isLoading is true only the loading indicator is
\* shown, without a user the router redirects to /login, and a signed-in
\* user with loading finished is never shown the landing or login page but is
\* redirected to /home.
C30_ProtectedRoutes == C30_Renders /\ C30_Settled

\* a signed-in user on the chat page
C30_Witness ==
  /\ user # <<>>
  /\ ~isLoading
  /\ location = "/chat"
  /\ Shown = Page("Chatbot")

====
